---- MODULE Spec2Model ----
(***************************************************************************)
(* xpad-sync: the synchronization engine of src/src/file_monitor.py.       *)
(* Note files of a source directory are mirrored into a target directory;  *)
(* a ledger (file_registry, persisted as .xpad_sync_metadata.json) records *)
(* what was written; a watcher thread schedules debounced syncs that the   *)
(* main loop fires.                                                        *)
(***************************************************************************)
EXTENDS Integers, Sequences, FiniteSets, TLC

(* ------------------------------ bounds -------------------------------- *)

\* The clock runs over 0..MaxTime (one unit is one second, the resolution
\* of the timestamp in a filename).
MaxTime == 1

\* Calls of sync_note and sync_all_notes in a run.
MaxOps == 2

\* Faults of the environment (failed writes, persists, unlinks) in a run.
MaxFaults == 1

\* The clock of a monitoring run goes over 0..MaxMonTime.
MaxMonTime == 3

\* Notifications for one identity in a monitoring run.
MaxNotes == 2

(* --------------------------- the source notes ------------------------- *)

\* Source identities: str(file_path) of the files discover_notes finds.
Ids == {"/x/content-A", "/x/content-B"}

\* A source file that does not exist.
Missing == "<missing>"

\* Raw contents of a source file: a whitespace-only file, two notes that
\* share their first line, and a note of 10 MiB.
RawContents == {" \n", "Plan\nmilk\n", "Plan\neggs\n", "Big\n<10 MiB>\n"}

\* A note with a character outside ASCII: "<U+00E9>" stands for the one
\* character e with acute accent, which UTF-8 encodes in two bytes.
Accented == "Plan\ncaf<U+00E9>\n"

\* content = f.read().strip()
Strip(raw) ==
  CASE raw = " \n" -> ""
    [] raw = "Plan\nmilk\n" -> "Plan\nmilk"
    [] raw = "Plan\neggs\n" -> "Plan\neggs"
    [] raw = "Big\n<10 MiB>\n" -> "Big\n<10 MiB>"
    [] raw = Accented -> "Plan\ncaf<U+00E9>"

\* len(content): "<10 MiB>" stands for 10 MiB of text.
Chars(content) ==
  CASE content = "" -> 0
    [] content = "Big\n<10 MiB>" -> 4 + 10485760
    [] content = "Plan\ncaf<U+00E9>" -> 9
    [] OTHER -> Len(content)

\* len(content.encode('utf-8')): one byte for a character of ASCII, two
\* for the accented letter.
Bytes(content) ==
  IF content = "Plan\ncaf<U+00E9>" THEN Chars(content) + 1
  ELSE Chars(content)

(* ------------------- the process and its configuration --------------- *)

VARIABLES
  config,              \* the SyncConfig of the process
  config_file,         \* the configuration document on disk
  WATCHDOG_AVAILABLE,  \* whether the import of watchdog went through
  main,                \* the process: its place in the module and in main(),
                       \* its command line and its exit code
  text,                \* a note's content, character by character
  call,                \* the call of NoteProcessor that has just returned
  event                \* the notification the observer dispatched last

outerVars == <<config, config_file, WATCHDOG_AVAILABLE, main, text, call,
               event>>

\* A string of the source, character by character.
xpad_note_ == <<"x", "p", "a", "d", "_", "n", "o", "t", "e", "_">>

\* SyncConfig defaults.
debounce_seconds == 2
max_file_size_mb == 10

\* SyncConfig(): the fields the model reads, at their defaults.
SyncConfig ==
  [ note_format      |-> "markdown",
    enable_realtime  |-> TRUE,
    prefix           |-> xpad_note_,
    timestamp_format |-> <<"%Y", "%m", "%d", "_", "%H", "%M", "%S">>,
    include_hash     |-> TRUE,
    title_max_length |-> 50 ]

\* self.config.include_hash, self.config.title_max_length
include_hash == config.include_hash
title_max_length == config.title_max_length

(* --------------------------- NoteProcessor ---------------------------- *)

\* extract_title: the first non-blank line, cleaned and sanitized.
extract_title(content) ==
  CASE content = "" -> "Untitled Note"
    [] content = "Plan\nmilk" -> "Plan"
    [] content = "Plan\neggs" -> "Plan"
    [] content = "Big\n<10 MiB>" -> "Big"
    [] content = "Plan\ncaf<U+00E9>" -> "Plan"

\* calculate_content_hash: sha256(content)[:8], one digest per content.
calculate_content_hash(content) ==
  CASE content = "" -> "e3b0c442"
    [] content = "Plan\nmilk" -> "h-milk"
    [] content = "Plan\neggs" -> "h-eggs"
    [] content = "Big\n<10 MiB>" -> "h-big"
    [] content = "Plan\ncaf<U+00E9>" -> "h-cafe"

\* len(datetime.now().isoformat())
IsoLen == 26

\* The fixed text of the markdown template of format_content.
TemplateLen == 58

\* format_content: the formatted text, as the pieces that vary, and its
\* length in characters and in bytes.
format_content(content, source_file) ==
  [ title  |-> extract_title(content),
    body   |-> content,
    source |-> source_file,
    chars  |-> TemplateLen + Len(extract_title(content)) + Chars(content)
                 + Len(source_file) + IsoLen,
    bytes  |-> TemplateLen + Len(extract_title(content)) + Bytes(content)
                 + Len(source_file) + IsoLen ]

\* generate_filename: prefix_title_timestamp[_hash].md; t is the clock, at
\* the one-second resolution of timestamp_format.
generate_filename(content, source_file, t) ==
  [ title |-> extract_title(content),
    ts    |-> t,
    hash  |-> IF include_hash THEN calculate_content_hash(content) ELSE "" ]

(* ------------- NoteProcessor, character by character ------------------ *)

\* A letter that is not ASCII, such as the e-acute of "Cafe": one character.
NonAscii == "U+00E9"

AsciiLetters ==
  {"a", "b", "c", "d", "e", "f", "g", "h", "i", "j", "k", "l", "m", "n",
   "o", "p", "q", "r", "s", "t", "u", "v", "w", "x", "y", "z",
   "A", "B", "C", "D", "E", "F", "G", "H", "I", "J", "K", "L", "M", "N",
   "O", "P", "Q", "R", "S", "T", "U", "V", "W", "X", "Y", "Z"}

AsciiDigits == <<"0", "1", "2", "3", "4", "5", "6", "7", "8", "9">>

HexDigits == AsciiDigits \o <<"a", "b", "c", "d", "e", "f">>

\* str.isspace and str.isalnum on the characters of the model: isalnum is
\* true of every letter and digit of Unicode.
Whitespace == {" ", "\n", "\t"}
isalnum(c) ==
  \/ c \in AsciiLetters
  \/ \E k \in DOMAIN AsciiDigits : AsciiDigits[k] = c
  \/ c = NonAscii

\* The string literals of extract_title and generate_filename.
Untitled_Note_spaced ==
  <<"U", "n", "t", "i", "t", "l", "e", "d", " ", "N", "o", "t", "e">>
Untitled_Note ==
  <<"U", "n", "t", "i", "t", "l", "e", "d", "_", "N", "o", "t", "e">>
Ellipsis == <<".", ".", ".">>

\* s.lstrip(chars), s.rstrip(chars), s.strip()
RECURSIVE lstrip(_, _)
lstrip(s, chars) ==
  IF s # <<>> /\ Head(s) \in chars THEN lstrip(Tail(s), chars) ELSE s

RECURSIVE rstrip(_, _)
rstrip(s, chars) ==
  IF s # <<>> /\ s[Len(s)] \in chars
    THEN rstrip(SubSeq(s, 1, Len(s) - 1), chars)
    ELSE s

strip(s) == rstrip(lstrip(s, Whitespace), Whitespace)

\* s.split(sep)
RECURSIVE split(_, _)
split(s, sep) ==
  IF \A k \in DOMAIN s : s[k] # sep THEN <<s>>
  ELSE <<SubSeq(s, 1, (CHOOSE k \in DOMAIN s :
                         s[k] = sep /\ \A j \in 1..(k - 1) : s[j] # sep) - 1)>>
         \o split(SubSeq(s, (CHOOSE k \in DOMAIN s :
                               s[k] = sep /\ \A j \in 1..(k - 1) : s[j] # sep)
                              + 1, Len(s)),
                  sep)

\* s[:n]; a negative n counts from the end.
Slice(s, n) ==
  IF n >= 0 THEN SubSeq(s, 1, IF n < Len(s) THEN n ELSE Len(s))
  ELSE SubSeq(s, 1, IF Len(s) + n > 0 THEN Len(s) + n ELSE 0)

\* s.replace(c, '') and s.replace(c, d)
Removed(s, c) == SelectSeq(s, LAMBDA x : x # c)
Replaced(s, c, d) == [k \in DOMAIN s |-> IF s[k] = c THEN d ELSE s[k]]

\* ' '.join(s.split()) of a stripped s, by halves: every run of whitespace
\* becomes one space.
glued(l, r) ==
  IF l # <<>> /\ r # <<>> /\ l[Len(l)] = " " /\ r[1] = " "
    THEN l \o Tail(r)
    ELSE l \o r

RECURSIVE join_words(_)
join_words(s) ==
  IF Len(s) <= 1 THEN [k \in DOMAIN s |-> IF s[k] \in Whitespace THEN " "
                                          ELSE s[k]]
  ELSE glued(join_words(SubSeq(s, 1, Len(s) \div 2)),
             join_words(SubSeq(s, (Len(s) \div 2) + 1, Len(s))))

\* lines = [line.strip() for line in content.split('\n') if line.strip()]
RECURSIVE stripped_lines(_)
stripped_lines(lines) ==
  IF lines = <<>> THEN <<>>
  ELSE IF strip(Head(lines)) = <<>> THEN stripped_lines(Tail(lines))
  ELSE <<strip(Head(lines))>> \o stripped_lines(Tail(lines))

\* lines 72-79 of extract_title: the first non-blank line without its
\* markdown formatting and with its whitespace normalized.
cleaned_title(content) ==
  join_words(strip(
    Removed(Removed(strip(lstrip(stripped_lines(split(content, "\n"))[1],
                                 {"#"})),
                    "*"),
            "_")))

\* lines 80-81: the title is cut to the maximum length.
truncated(title, max) ==
  IF Len(title) > max THEN Slice(title, max - 3) \o Ellipsis ELSE title

\* lines 84-85: the title is made safe for a filename.
sanitized(title) ==
  Replaced(SelectSeq(title, LAMBDA c : isalnum(c) \/ c \in {" ", "-", "_"}),
           " ", "_")

\* return title or "Untitled_Note"
or_untitled(title) == IF title = <<>> THEN Untitled_Note ELSE title

\* lines 72-87 of extract_title
title_of_first_line(content, max) ==
  or_untitled(sanitized(truncated(cleaned_title(content), max)))

\* An extract_title that gives the empty content the filename-safe title.
extract_title_chars_underscored(content, max) ==
  IF strip(content) = <<>> THEN Untitled_Note
  ELSE IF stripped_lines(split(content, "\n")) = <<>>
    THEN Untitled_Note
  ELSE title_of_first_line(content, max)

\* extract_title, character by character; max is title_max_length.
extract_title_chars(content, max) ==
  IF strip(content) = <<>> THEN Untitled_Note_spaced
  ELSE IF stripped_lines(split(content, "\n")) = <<>>
    THEN Untitled_Note_spaced
  ELSE title_of_first_line(content, max)

\* The characters a content of the model is made of, in the order of
\* their codes.
Charset ==
  <<"\t", "\n", " ", "!", "#", "*", "-", ".", "7", "_", "a", "p", NonAscii>>

CharCode(c) == CHOOSE k \in DOMAIN Charset : Charset[k] = c

\* A digest of 16 bits of the characters lo..hi of s, each weighted with
\* its place, as four hexadecimal digits.
RECURSIVE checksum(_, _, _, _)
checksum(s, m, lo, hi) ==
  IF lo > hi THEN 0
  ELSE IF lo = hi THEN (CharCode(s[lo]) * (m + lo)) % 65536
  ELSE (checksum(s, m, lo, (lo + hi) \div 2)
          + checksum(s, m, ((lo + hi) \div 2) + 1, hi)) % 65536

hex4(h) ==
  << HexDigits[((h \div 4096) % 16) + 1], HexDigits[((h \div 256) % 16) + 1],
     HexDigits[((h \div 16) % 16) + 1], HexDigits[(h % 16) + 1] >>

\* calculate_content_hash, character by character: hexdigest()[:8], eight
\* hexadecimal digits that depend on every character of the content (two
\* digests of 16 bits stand for the 32 bits of SHA-256 it keeps).
content_hash_chars(content) ==
  hex4(checksum(content, 31, 1, Len(content)))
    \o hex4(checksum(content, 17, 1, Len(content)))

\* One directive or literal character of a strftime format, at t seconds
\* after 2024-01-01 12:00:00.
Directive(d, t) ==
  CASE d = "%Y" -> <<"2", "0", "2", "4">>
    [] d = "%m" -> <<"0", "1">>
    [] d = "%d" -> <<"0", "1">>
    [] d = "%H" -> <<"1", "2">>
    [] d = "%M" -> <<AsciiDigits[((t \div 600) % 6) + 1],
                     AsciiDigits[((t \div 60) % 10) + 1]>>
    [] d = "%S" -> <<AsciiDigits[((t \div 10) % 6) + 1],
                     AsciiDigits[(t % 10) + 1]>>
    [] OTHER -> <<d>>

\* datetime.now().strftime(format)
RECURSIVE strftime(_, _)
strftime(format, t) ==
  IF format = <<>> THEN <<>>
  ELSE Directive(Head(format), t) \o strftime(Tail(format), t)

\* sep.join(parts)
RECURSIVE Joined(_, _)
Joined(sep, parts) ==
  IF parts = <<>> THEN <<>>
  ELSE IF Len(parts) = 1 THEN parts[1]
  ELSE parts[1] \o <<sep>> \o Joined(sep, Tail(parts))

\* extension = ".md" if self.config.note_format == "markdown" else ".txt"
extension ==
  IF config.note_format = "markdown" THEN <<".", "m", "d">>
  ELSE <<".", "t", "x", "t">>

\* filename = "_".join(filename_parts) + extension
composed(title, content, t) ==
  Joined("_", <<config.prefix, title,
                strftime(config.timestamp_format, t)>>
                \o (IF include_hash THEN <<content_hash_chars(content)>>
                    ELSE <<>>))
    \o extension

\* Lines 133-139 of generate_filename: a name of more than 200 characters
\* is composed again with the title cut. Line 136 reads content_hash, a
\* local that is bound only when include_hash is set: without it the call
\* raises UnboundLocalError.
not_too_long(filename, title, content, t) ==
  IF Len(filename) <= 200 THEN [raised |-> FALSE, name |-> filename]
  ELSE IF ~include_hash THEN [raised |-> TRUE, name |-> <<>>]
  ELSE [raised |-> FALSE,
        name |-> composed(
                   Slice(title,
                         200 - Len(strftime(config.timestamp_format, t))
                             - Len(content_hash_chars(content)) - 20),
                   content, t)]

\* Lines 120-131 of generate_filename, for the title extracted.
named(title, content, t) ==
  not_too_long(composed(title, content, t), title, content, t)

\* generate_filename, character by character.
generate_filename_chars(content, source_file, t) ==
  named(extract_title_chars(content, title_max_length), content, t)

(* --------------------------- GoogleDriveSync -------------------------- *)

EmptyMap == [i \in {} |-> 0]

\* The ledger document on disk: missing, a complete mapping, or a document
\* cut short (opened for writing, hence truncated, and not written whole).
NoDocument == [kind |-> "missing", map |-> EmptyMap]
Document(reg) == [kind |-> "map", map |-> reg]
TornDocument == [kind |-> "torn", map |-> EmptyMap]

\* A well-formed JSON document that is not a mapping: the array [].
ListDocument == [kind |-> "list", map |-> EmptyMap]

\* What a write of the output file can do: succeed, fail in open() (nothing
\* on disk changes), or fail after open() truncated or created the file.
WriteOutcomes == {"ok", "open_fails", "write_fails"}

\* What the persist of the ledger can do: succeed, fail in open(), fail in
\* json.dump after open() truncated the file, or the process dies there.
PersistOutcomes == {"ok", "open_fails", "dump_fails", "crash"}

\* _load_metadata
load_metadata(disk) ==
  IF disk.kind = "map" THEN disk.map ELSE EmptyMap

\* The Python type of what _load_metadata returns: json.load gives back
\* whatever document parses, a list for an array.
loaded_type(disk) == IF disk.kind = "list" THEN "list" ELSE "dict"

\* _save_metadata: the exception of a failed persist is logged and dropped.
save_metadata(reg, disk, p) ==
  CASE p = "ok" -> Document(reg)
    [] p = "open_fails" -> disk
    [] OTHER -> TornDocument

\* The engine's state as the operations below pass it along: the target
\* directory, the ledger in memory (with its Python type) and on disk,
\* whether the process died, whether an exception left the operation,
\* what the latest sync_note returned and whether it wrote its file, and
\* the outcome mapping and the notes written of the pass so far, and the
\* document on disk before the latest persist with the one it was writing.
Engine(tgt, reg, type, disk) ==
  [target |-> tgt, reg |-> reg, type |-> type, disk |-> disk,
   crashed |-> FALSE, raised |-> FALSE,
   result |-> FALSE, wrote |-> FALSE, results |-> EmptyMap, written |-> {},
   persist |-> [old |-> disk, new |-> disk]]

Returns(e, r) == [e EXCEPT !.result = r, !.wrote = FALSE]

\* The file a write leaves under a name of the target directory.
Written(tgt, filename, source_file, content, complete) ==
  (filename :> [by |-> "engine", source |-> source_file, body |-> content,
                complete |-> complete]) @@ tgt

\* A registry update that is left out.
Upsert_forgotten(reg, source_file, filename, content, t, size) == reg

\* A registry update that starts the registry over with the one record.
Upsert_alone(reg, source_file, filename, content, t, size) ==
  source_file :> [ output_file  |-> filename,
                   content_hash |-> calculate_content_hash(content),
                   last_synced  |-> t,
                   file_size    |-> size ]

\* self.file_registry[source_file] = {...}
Upsert(reg, source_file, filename, content, t, size) ==
  (source_file :> [ output_file  |-> filename,
                    content_hash |-> calculate_content_hash(content),
                    last_synced  |-> t,
                    file_size    |-> size ]) @@ reg

\* The registry update and the persist that end save_note_file and
\* cleanup_orphaned_files.
Persisted(e, tgt, reg, p) ==
  [e EXCEPT !.target = tgt, !.reg = reg,
            !.disk = save_metadata(reg, e.disk, p),
            !.crashed = (p = "crash"),
            !.persist = [old |-> e.disk, new |-> Document(reg)]]

\* A save_note_file that updates the registry before it knows the write of
\* the output file went through.
write_and_record_eager(e, content, source_file, t, w, p) ==
  [Persisted(e,
     IF w = "ok"
       THEN Written(e.target, generate_filename(content, source_file, t),
                    source_file, content, TRUE)
       ELSE e.target,
     Upsert(e.reg, source_file, generate_filename(content, source_file, t),
            content, t, format_content(content, source_file).chars),
     p)
   EXCEPT !.result = (w = "ok"), !.wrote = (w = "ok")]

\* The try block of save_note_file after the size check: the write of the
\* output file, the registry update and the persist.
write_and_record(e, content, source_file, t, w, p) ==
  IF w = "open_fails" THEN Returns(e, FALSE)
  ELSE IF w = "write_fails"
    THEN [Returns(e, FALSE) EXCEPT !.target =
            Written(e.target, generate_filename(content, source_file, t),
                    source_file, content, FALSE)]
  ELSE IF e.type # "dict"
    THEN [Returns(e, FALSE) EXCEPT !.target =
            Written(e.target, generate_filename(content, source_file, t),
                    source_file, content, TRUE)]
  ELSE [Persisted(e,
          Written(e.target, generate_filename(content, source_file, t),
                  source_file, content, TRUE),
          Upsert(e.reg, source_file,
                 generate_filename(content, source_file, t), content, t,
                 format_content(content, source_file).chars),
          p)
        EXCEPT !.result = TRUE, !.wrote = TRUE]

\* A save_note_file without the size check of lines 186-189.
save_note_file_unchecked(e, content, source_file, t, w, p) ==
  write_and_record(e, content, source_file, t, w, p)

\* save_note_file: result is whether it returned a path (not None).
save_note_file(e, content, source_file, t, w, p) ==
  IF format_content(content, source_file).bytes
       > max_file_size_mb * 1024 * 1024
    THEN Returns(e, FALSE)
    ELSE write_and_record(e, content, source_file, t, w, p)

\* A change detector that only looks for a record.
is_content_changed_unrecorded(reg, source_file, content) ==
  source_file \notin DOMAIN reg

\* A change detector that reports every note as changed.
is_content_changed_always(reg, source_file, content) == TRUE

\* is_content_changed
is_content_changed(reg, source_file, content) ==
  IF source_file \notin DOMAIN reg THEN TRUE
  ELSE calculate_content_hash(content) # reg[source_file].content_hash

\* The records and the files that are left when the orphans are removed.
Without(reg, orphaned) == [s \in DOMAIN reg \ orphaned |-> reg[s]]
Unlinked(tgt, names) == [n \in DOMAIN tgt \ names |-> tgt[n]]

\* A cleanup that unlinks the orphans' files and keeps their records.
cleanup_keeps_records(e, active_sources, uf, p) ==
  IF DOMAIN e.reg \ active_sources = {} THEN e
  ELSE Persisted(e,
         Unlinked(e.target,
                  {e.reg[o].output_file :
                     o \in (DOMAIN e.reg \ active_sources) \ uf}),
         e.reg, p)

\* "output_file" in metadata
has_output_file(metadata) == "output_file" \in DOMAIN metadata

\* cleanup_orphaned_files: uf are the orphans whose unlink() raises. A
\* registry that is no dict has no keys(): line 225 raises. A record
\* without the key output_file makes metadata["output_file"] raise
\* (line 229); such a record is, in the ledgers modelled, the only orphan.
cleanup_orphaned_files(e, active_sources, uf, p) ==
  IF e.type # "dict" THEN [e EXCEPT !.raised = TRUE]
  ELSE IF DOMAIN e.reg \ active_sources = {} THEN e
  ELSE IF \E o \in DOMAIN e.reg \ active_sources : ~has_output_file(e.reg[o])
    THEN [e EXCEPT !.raised = TRUE]
  ELSE Persisted(e,
         Unlinked(e.target,
                  {e.reg[o].output_file :
                     o \in (DOMAIN e.reg \ active_sources) \ uf}),
         Without(e.reg, DOMAIN e.reg \ active_sources),
         p)

(* ---------------------------- XpadGDriveSync -------------------------- *)

\* discover_notes
discover_notes(srcs) == {i \in Ids : srcs[i] # Missing}

\* A sync_note that looks at force before it looks at the content.
sync_note_force_first(e, srcs, file_path, force, t, w, p) ==
  IF srcs[file_path] = Missing THEN Returns(e, FALSE)
  ELSE IF force
    THEN save_note_file(e, Strip(srcs[file_path]), file_path, t, w, p)
  ELSE IF Strip(srcs[file_path]) = "" THEN Returns(e, FALSE)
  ELSE IF ~is_content_changed(e.reg, file_path, Strip(srcs[file_path]))
    THEN Returns(e, TRUE)
  ELSE save_note_file(e, Strip(srcs[file_path]), file_path, t, w, p)

\* A sync_note that reports the note it skips as unchanged as not synced.
sync_note_skip_is_failure(e, srcs, file_path, force, t, w, p) ==
  IF srcs[file_path] = Missing THEN Returns(e, FALSE)
  ELSE IF Strip(srcs[file_path]) = "" THEN Returns(e, FALSE)
  ELSE IF ~force /\ ~is_content_changed(e.reg, file_path,
                                        Strip(srcs[file_path]))
    THEN Returns(e, FALSE)
  ELSE save_note_file(e, Strip(srcs[file_path]), file_path, t, w, p)

\* A sync_note that does not look at force.
sync_note_unforced(e, srcs, file_path, force, t, w, p) ==
  IF srcs[file_path] = Missing THEN Returns(e, FALSE)
  ELSE IF Strip(srcs[file_path]) = "" THEN Returns(e, FALSE)
  ELSE IF ~is_content_changed(e.reg, file_path, Strip(srcs[file_path]))
    THEN Returns(e, TRUE)
  ELSE save_note_file(e, Strip(srcs[file_path]), file_path, t, w, p)

\* sync_note: result is the boolean it returns.
sync_note(e, srcs, file_path, force, t, w, p) ==
  IF srcs[file_path] = Missing THEN Returns(e, FALSE)
  ELSE IF Strip(srcs[file_path]) = "" THEN Returns(e, FALSE)
  ELSE IF ~force /\ ~is_content_changed(e.reg, file_path,
                                        Strip(srcs[file_path]))
    THEN Returns(e, TRUE)
  ELSE save_note_file(e, Strip(srcs[file_path]), file_path, t, w, p)

\* A fault of the environment during one operation: a write of an output
\* file, a persist of the ledger or an unlink() that does not go through,
\* at one place of the operation (a note, or "cleanup"). An operation meets
\* at most one fault.
NoFault == [on |-> "none", at |-> "none", how |-> "ok"]

WriteOf(f, place) == IF f.on = "write" /\ f.at = place THEN f.how ELSE "ok"
PersistOf(f, place) == IF f.on = "persist" /\ f.at = place THEN f.how ELSE "ok"
UnlinkFails(f) == IF f.on = "unlink" THEN {f.at} ELSE {}

\* results[str(note_file)] = self.sync_note(note_file, force=force)
Noted(s, note_file) ==
  [s EXCEPT !.results = (note_file :> s.result) @@ s.results,
            !.written = IF s.wrote THEN s.written \cup {note_file}
                        ELSE s.written]

\* The loop of sync_all_notes over the notes in the order of the listing;
\* it ends where the process dies.
RECURSIVE sync_loop(_, _, _, _, _, _)
sync_loop(e, srcs, force, order, t, f) ==
  IF order = <<>> \/ e.crashed THEN e
  ELSE sync_loop(Noted(sync_note(e, srcs, Head(order), force, t,
                                 WriteOf(f, Head(order)),
                                 PersistOf(f, Head(order))),
                       Head(order)),
                 srcs, force, Tail(order), t, f)

\* The cleanup that ends a pass.
pass_cleanup(e, order, f) ==
  IF e.crashed THEN e
  ELSE cleanup_orphaned_files(e, {order[k] : k \in DOMAIN order},
                              UnlinkFails(f), PersistOf(f, "cleanup"))

\* sync_all_notes: order is the listing of discover_notes.
sync_all_notes(e, srcs, force, order, t, f) ==
  IF order = <<>> THEN e
  ELSE pass_cleanup(sync_loop(e, srcs, force, order, t, f), order, f)

(* ------------------------------- state -------------------------------- *)

VARIABLES
  sources,        \* the source directory: identity -> raw content or Missing
  now,            \* the clock
  target,         \* the target directory: filename -> the file written
  file_registry,  \* GoogleDriveSync.file_registry, the ledger in memory
  registry_type,  \* the Python type of file_registry: "dict" or "list"
  metadata_file,  \* .xpad_sync_metadata.json, the ledger on disk
  alive,          \* a process of the engine exists
  pending_syncs,  \* XpadGDriveSync.pending_syncs: identity -> not-before time
  running,        \* XpadGDriveSync.running
  observer,       \* the watchdog observer: "none", "started" or "stopped"
  watcher,        \* the watcher thread's place in _schedule_sync
  loop,           \* the main thread's place in the loop of start_monitoring
  ops,            \* calls of sync_note and sync_all_notes so far
  faults,         \* faults of the environment so far
  passed,         \* the outcome mapping of the latest full pass, while no
                  \* source changed and no other operation ran since
  heard,          \* per identity: when its latest notification came, the
                  \* bursts and the notifications so far, and the
                  \* debounced syncs so far
  last            \* the engine operation that has just returned: its
                  \* arguments, its result and the state it started from

engineVars == <<target, file_registry, registry_type, metadata_file, alive>>
monitorVars == <<pending_syncs, running, observer, watcher, loop, heard>>
vars == <<sources, now, target, file_registry, registry_type, metadata_file,
          alive,
          pending_syncs, running, observer, watcher, loop, ops, faults,
          passed, heard, last,
          config, config_file, WATCHDOG_AVAILABLE, main, text, call, event>>

NoPass == [done |-> FALSE, force |-> FALSE, results |-> EmptyMap]

NoOp == [op |-> "none", ids |-> {}, content |-> "", force |-> FALSE,
         fault |-> NoFault,
         results |-> EmptyMap, wrote |-> {}, crashed |-> FALSE,
         raised |-> FALSE,
         persist |-> [old |-> NoDocument, new |-> NoDocument],
         after |-> NoPass,
         pre |-> [target |-> EmptyMap, reg |-> EmptyMap, disk |-> NoDocument]]

\* The watcher thread is outside _schedule_sync.
WatcherIdle == [pc |-> "idle", file_path |-> "", schedule_time |-> 0]

\* The main thread is outside start_monitoring.
LoopOff == [pc |-> "off", ready_files |-> <<>>, file_path |-> "", t |-> 0,
            fault |-> NoFault, seen |-> EmptyMap]

\* The main thread in start_monitoring: between ticks ("wait"), in the loop
\* of _process_pending_syncs over ready ("fire"), out of the loop ("done").
Loop(pc, ready) == [LoopOff EXCEPT !.pc = pc, !.ready_files = ready]

NotHeard == [at |-> -1, bursts |-> 0, notes |-> 0, fired |-> 0]

\* The contents each source file takes in the model.
ContentsOf(i) ==
  IF i = "/x/content-A" THEN RawContents \cup {Missing}
  ELSE {"Plan\nmilk\n", Missing}

\* The orders in which a listing can return a set of notes.
AllOrders ==
  {o \in UNION {[1..n -> Ids] : n \in 0..Cardinality(Ids)} :
     \A j, k \in DOMAIN o : j # k => o[j] # o[k]}

Orders(S) == {o \in AllOrders : {o[k] : k \in DOMAIN o} = S}

\* save_note_file is reached for the note and gets to its write.
Writes(reg, srcs, i, force) ==
  /\ srcs[i] # Missing
  /\ Strip(srcs[i]) # ""
  /\ force \/ is_content_changed(reg, i, Strip(srcs[i]))
  /\ format_content(Strip(srcs[i]), i).bytes <= max_file_size_mb * 1024 * 1024

\* The faults at the write and the persist of one note.
FaultsAt(i) ==
  [on : {"write"}, at : {i}, how : WriteOutcomes \ {"ok"}]
    \cup [on : {"persist"}, at : {i}, how : PersistOutcomes \ {"ok"}]

\* The faults sync_note can meet: those at a place it reaches.
NoteFaults(i, force) ==
  IF faults < MaxFaults /\ Writes(file_registry, sources, i, force)
    THEN {NoFault} \cup FaultsAt(i)
    ELSE {NoFault}

\* The faults a pass can meet: at the notes it writes, at the persist of
\* the cleanup, at the unlink of an orphan's file.
PassFaults(force) ==
  IF faults < MaxFaults /\ discover_notes(sources) # {}
    THEN {NoFault}
      \cup UNION {FaultsAt(i) :
                    i \in {n \in discover_notes(sources) :
                             Writes(file_registry, sources, n, force)}}
      \cup [on : {"persist"},
            at : IF DOMAIN file_registry \ discover_notes(sources) # {}
                   THEN {"cleanup"} ELSE {},
            how : PersistOutcomes \ {"ok"}]
      \cup [on : {"unlink"},
            at : {o \in DOMAIN file_registry \ discover_notes(sources) :
                    /\ has_output_file(file_registry[o])
                    /\ file_registry[o].output_file \in DOMAIN target},
            how : {"fails"}]
    ELSE {NoFault}

\* The configuration document on disk: missing, or what was written there.
NoConfigFile == [kind |-> "missing", data |-> SyncConfig]
ConfigDocument(data) == [kind |-> "mapping", data |-> data]

\* The engine is used as an object, as the tests use it: no command runs.
NoMain == [pc |-> "object", command |-> "none", force |-> FALSE,
           found |-> "none", exit_code |-> -1,
           pre |-> [target |-> EmptyMap, disk |-> NoDocument]]

\* The observer has dispatched no notification.
NoEvent == [event_type |-> "none", is_directory |-> FALSE, src_path |-> ""]

\* No call of NoteProcessor has returned.
NoCall == [op |-> "none", result |-> <<>>, raised |-> FALSE, t |-> 0]

\* An engine built by SyncConfig() and XpadGDriveSync(config), with
\* watchdog installed.
AsObject ==
  /\ config = SyncConfig
  /\ config_file = ConfigDocument(SyncConfig)
  /\ WATCHDOG_AVAILABLE = TRUE
  /\ main = NoMain
  /\ text = <<>>
  /\ call = NoCall
  /\ event = NoEvent

\* The state after XpadGDriveSync.__init__ on a fresh target directory.
FreshEngine ==
  /\ now = 0
  /\ target = EmptyMap
  /\ file_registry = EmptyMap
  /\ registry_type = "dict"
  /\ metadata_file = NoDocument
  /\ alive = TRUE
  /\ pending_syncs = EmptyMap
  /\ running = FALSE
  /\ observer = "none"
  /\ watcher = WatcherIdle
  /\ loop = LoopOff
  /\ ops = 0
  /\ faults = 0
  /\ passed = NoPass
  /\ heard = [i \in Ids |-> NotHeard]
  /\ last = NoOp

Constructed == AsObject /\ FreshEngine

Init ==
  /\ sources \in {s \in [Ids -> RawContents \cup {Missing}] :
                    \A i \in Ids : s[i] \in ContentsOf(i)}
  /\ Constructed

(* ------------------------------ actions ------------------------------- *)

\* The caller has the result of the operation that has just returned.
Settle ==
  /\ ops < MaxOps \/ loop.pc # "off"
  /\ last # NoOp
  /\ last' = NoOp
  /\ UNCHANGED <<sources, now, engineVars, monitorVars, ops, faults, passed>>
  /\ UNCHANGED outerVars

\* The note application writes, rewrites or deletes a source file.
Edit(i, c) ==
  /\ last = NoOp
  /\ ops < MaxOps
  /\ sources[i] # c
  /\ sources' = [sources EXCEPT ![i] = c]
  /\ passed' = NoPass
  /\ UNCHANGED <<now, engineVars, monitorVars, ops, faults, last>>
  /\ UNCHANGED outerVars

\* A second passes.
Advance ==
  /\ last = NoOp
  /\ ops < MaxOps
  /\ now < MaxTime
  /\ now' = now + 1
  /\ UNCHANGED <<sources, engineVars, monitorVars, ops, faults, passed, last>>
  /\ UNCHANGED outerVars

\* What an operation leaves: s is the engine's state it ends in. An
\* exception that leaves sync_all_notes ends the command (main returns 1).
Commit(s, op, ids, force, f) ==
  /\ target' = s.target
  /\ file_registry' = IF s.crashed \/ s.raised THEN EmptyMap ELSE s.reg
  /\ registry_type' = IF s.crashed \/ s.raised THEN "dict" ELSE s.type
  /\ metadata_file' = s.disk
  /\ alive' = ~(s.crashed \/ s.raised)
  /\ passed' = IF op = "sync_all_notes" /\ ~s.crashed /\ ~s.raised
                 THEN [done |-> TRUE, force |-> force, results |-> s.results]
                 ELSE NoPass
  /\ last' = [op |-> op, ids |-> ids, content |-> "", force |-> force,
              fault |-> f,
              results |-> s.results, wrote |-> s.written,
              crashed |-> s.crashed, raised |-> s.raised,
              persist |-> s.persist,
              after |-> passed,
              pre |-> [target |-> target, reg |-> file_registry,
                       disk |-> metadata_file]]
  /\ ops' = ops + 1
  /\ faults' = IF f = NoFault THEN faults ELSE faults + 1

\* XpadGDriveSync.sync_note(file_path), as its callers outside a pass
\* call it: force takes its default.
SyncNote(i, f) ==
  /\ last = NoOp
  /\ alive
  /\ ops < MaxOps
  /\ Commit(Noted(sync_note(Engine(target, file_registry, registry_type, metadata_file),
                            sources, i, FALSE, now, WriteOf(f, i),
                            PersistOf(f, i)), i),
            "sync_note", {i}, FALSE, f)
  /\ UNCHANGED <<sources, now, monitorVars>>
  /\ UNCHANGED outerVars

\* XpadGDriveSync.sync_all_notes(force)
SyncAll(force, order, f) ==
  /\ last = NoOp
  /\ alive
  /\ ops < MaxOps
  /\ Commit(sync_all_notes(Engine(target, file_registry, registry_type, metadata_file),
                           sources, force, order, now, f),
            "sync_all_notes", {order[k] : k \in DOMAIN order}, force, f)
  /\ UNCHANGED <<sources, now, monitorVars>>
  /\ UNCHANGED outerVars

\* GoogleDriveSync.is_content_changed(source_file, content, processor),
\* called on its own: the caller has its answer and the state it left.
IsContentChanged(i, c) ==
  /\ last = NoOp
  /\ alive
  /\ ops < MaxOps
  /\ last' = [NoOp EXCEPT
                !.op = "is_content_changed", !.ids = {i}, !.content = c,
                !.results = (i :> is_content_changed(file_registry, i, c)),
                !.pre = [target |-> target, reg |-> file_registry,
                         disk |-> metadata_file]]
  /\ UNCHANGED <<sources, now, engineVars, monitorVars, ops, faults, passed>>
  /\ UNCHANGED outerVars

\* The process ends (the one-shot command returns).
Exit ==
  /\ last = NoOp
  /\ ops < MaxOps
  /\ alive
  /\ alive' = FALSE
  /\ file_registry' = EmptyMap
  /\ registry_type' = "dict"
  /\ passed' = NoPass
  /\ UNCHANGED <<sources, now, target, metadata_file, monitorVars, ops, faults,
                 last>>
  /\ UNCHANGED outerVars

\* GoogleDriveSync.__init__ of a new process: the ledger is loaded.
Start ==
  /\ last = NoOp
  /\ ~alive
  /\ alive' = TRUE
  /\ file_registry' = load_metadata(metadata_file)
  /\ registry_type' = loaded_type(metadata_file)
  /\ passed' = NoPass
  /\ last' = [NoOp EXCEPT !.op = "start",
                !.pre = [target |-> target, reg |-> file_registry,
                         disk |-> metadata_file]]
  /\ UNCHANGED <<sources, now, target, metadata_file, monitorVars, ops, faults>>
  /\ UNCHANGED outerVars

(* --------------------------- monitoring ------------------------------- *)

\* A second passes in a monitoring run.
MonAdvance ==
  /\ last = NoOp
  /\ now < MaxMonTime
  /\ now' = now + 1
  /\ UNCHANGED <<sources, engineVars, monitorVars, ops, faults, passed, last>>
  /\ UNCHANGED outerVars

\* start_monitoring up to its loop: the observer is started.
StartMonitoring ==
  /\ last = NoOp
  /\ alive
  /\ loop.pc = "off"
  /\ observer = "none"
  /\ config.enable_realtime
  /\ WATCHDOG_AVAILABLE
  /\ observer' = "started"
  /\ running' = TRUE
  /\ loop' = Loop("wait", <<>>)
  /\ UNCHANGED <<sources, now, engineVars, pending_syncs, watcher, heard, ops,
                 faults, passed, last>>
  /\ UNCHANGED outerVars

\* The notification that comes at time t after those heard so far: it goes
\* on the burst when it comes less than the debounce delay after the latest.
Hears(h, t) ==
  IF h.at >= 0 /\ t - h.at < debounce_seconds
    THEN [h EXCEPT !.at = t, !.notes = @ + 1]
    ELSE [h EXCEPT !.at = t, !.notes = @ + 1, !.bursts = @ + 1]

\* on_modified / on_created of a content file, on the watcher thread, up to
\* line 257 of _schedule_sync: schedule_time = time.time() + debounce_seconds
schedule_sync(i) ==
  /\ last = NoOp
  /\ observer = "started"
  /\ watcher.pc = "idle"
  /\ heard[i].notes < MaxNotes
  /\ watcher' = [pc |-> "stamped", file_path |-> i,
                 schedule_time |-> now + debounce_seconds]
  /\ heard' = [heard EXCEPT ![i] = Hears(heard[i], now)]
  /\ UNCHANGED <<sources, now, engineVars, pending_syncs, running, observer,
                 loop, ops, faults, passed, last>>

\* A notification of a change of the content file i: its callback up to
\* line 257.
NotifyStamp(i) ==
  /\ schedule_sync(i)
  /\ UNCHANGED outerVars

\* What the source directory holds besides the notes: the info file xpad
\* keeps with each note, the swap file of an editor and a directory.
OtherFiles == {"/x/info-A", "/x/.content-A.swp"}
Directories == {"/x/content-old"}

\* Path(file_path).name, character by character.
name(file_path) ==
  CASE file_path = "/x/content-A" ->
         <<"c", "o", "n", "t", "e", "n", "t", "-", "A">>
    [] file_path = "/x/content-B" ->
         <<"c", "o", "n", "t", "e", "n", "t", "-", "B">>
    [] file_path = "/x/info-A" -> <<"i", "n", "f", "o", "-", "A">>
    [] file_path = "/x/.content-A.swp" ->
         <<".", "c", "o", "n", "t", "e", "n", "t", "-", "A", ".", "s", "w",
           "p">>
    [] file_path = "/x/content-old" ->
         <<"c", "o", "n", "t", "e", "n", "t", "-", "o", "l", "d">>

content_ == <<"c", "o", "n", "t", "e", "n", "t", "-">>

\* str.startswith
startswith(s, prefix) ==
  Len(s) >= Len(prefix) /\ SubSeq(s, 1, Len(prefix)) = prefix

\* _is_content_file
is_content_file(file_path) == startswith(name(file_path), content_)

\* on_modified and on_created: whether the callback calls _schedule_sync.
on_modified(ev) == ~ev.is_directory /\ is_content_file(ev.src_path)
on_created(ev) == ~ev.is_directory /\ is_content_file(ev.src_path)

\* A handler that also schedules a sync when a content file is deleted.
dispatch_deleted(ev) ==
  CASE ev.event_type = "modified" -> on_modified(ev)
    [] ev.event_type = "created" -> on_created(ev)
    [] ev.event_type = "deleted" -> on_modified(ev)
    [] OTHER -> FALSE

\* FileSystemEventHandler.dispatch on an XpadFileMonitor: the class
\* overrides on_modified and on_created, and inherits callbacks that do
\* nothing for the other notifications.
dispatch(ev) ==
  CASE ev.event_type = "modified" -> on_modified(ev)
    [] ev.event_type = "created" -> on_created(ev)
    [] OTHER -> FALSE

\* The notifications the observer delivers for the source directory.
Events ==
  {ev \in [event_type : {"created", "modified", "deleted", "moved"},
           is_directory : BOOLEAN,
           src_path : Ids \cup OtherFiles \cup Directories] :
     ev.is_directory <=> ev.src_path \in Directories}

\* The observer delivers a notification to the handler, on the watcher
\* thread: the callback runs up to line 257 of _schedule_sync, or returns.
Dispatch(ev) ==
  /\ event' = ev
  /\ UNCHANGED <<config, config_file, WATCHDOG_AVAILABLE, main, text, call>>
  /\ IF dispatch(ev) THEN schedule_sync(ev.src_path)
     ELSE /\ last = NoOp
          /\ observer = "started"
          /\ watcher.pc = "idle"
          /\ UNCHANGED <<sources, now, engineVars, monitorVars, ops, faults,
                         passed, last>>

\* self.sync_engine.pending_syncs[file_path] = schedule_time
Scheduled(pending, w) == (w.file_path :> w.schedule_time) @@ pending

\* A callback that syncs the note itself, on the watcher thread, instead of
\* scheduling it.
NotifyStore_syncs ==
  /\ last = NoOp
  /\ watcher.pc = "stamped"
  /\ ops < MaxOps
  /\ Commit(Noted(sync_note(Engine(target, file_registry, registry_type,
                                   metadata_file),
                            sources, watcher.file_path, FALSE, now, "ok",
                            "ok"),
                  watcher.file_path),
            "debounced", {watcher.file_path}, FALSE, NoFault)
  /\ watcher' = WatcherIdle
  /\ UNCHANGED <<sources, now, pending_syncs, running, observer, loop, heard>>
  /\ UNCHANGED outerVars

\* line 258 of _schedule_sync, on the watcher thread.
NotifyStore ==
  /\ last = NoOp
  /\ watcher.pc = "stamped"
  /\ pending_syncs' = Scheduled(pending_syncs, watcher)
  /\ watcher' = WatcherIdle
  /\ UNCHANGED <<sources, now, engineVars, running, observer, loop, heard,
                 ops, faults, passed, last>>
  /\ UNCHANGED outerVars

\* A scan whose comparison is the wrong way round.
Ready_before(pending, current_time) ==
  {file_path \in DOMAIN pending : current_time < pending[file_path]}

\* The entries of the pending set a tick at current_time finds ready.
Ready(pending, current_time) ==
  {file_path \in DOMAIN pending : current_time >= pending[file_path]}

\* _process_pending_syncs up to its loop: the clock is read and the ready
\* entries are selected.
TickScan(order) ==
  /\ last = NoOp
  /\ loop.pc = "wait"
  /\ running
  /\ pending_syncs # EmptyMap
  /\ order \in Orders(Ready(pending_syncs, now))
  /\ order # <<>>
  /\ ops + Len(order) <= MaxOps
  /\ loop' = Loop("fire", order)
  /\ UNCHANGED <<sources, now, engineVars, pending_syncs, running, observer,
                 watcher, heard, ops, faults, passed, last>>
  /\ UNCHANGED outerVars

\* _process_pending_syncs up to the iteration of line 426: the clock is
\* read (line 424) and the iterator over self.pending_syncs.items() is
\* made, which remembers the size of the dictionary.
TickScanBegin ==
  /\ last = NoOp
  /\ loop.pc = "wait"
  /\ running
  /\ pending_syncs # EmptyMap
  /\ loop' = [Loop("scan", <<>>) EXCEPT !.t = now, !.seen = pending_syncs]
  /\ UNCHANGED <<sources, now, engineVars, pending_syncs, running, observer,
                 watcher, heard, ops, faults, passed, last>>
  /\ UNCHANGED outerVars

\* The entries an iteration can find ready that began over the dictionary
\* seen and ends over pending: an entry the watcher thread has reset in
\* between is read before or after the reset.
ReadySets(seen, pending, current_time) ==
  {S \in SUBSET (Ready(seen, current_time) \cup Ready(pending, current_time)) :
     Ready(seen, current_time) \cap Ready(pending, current_time) \subseteq S}

\* The check the iterator of a dict makes at each step: the dictionary
\* has changed size since the iterator was made.
size_changed(seen, pending) ==
  Cardinality(DOMAIN pending) # Cardinality(DOMAIN seen)

\* The iteration of lines 425-428 runs to its end: the ready entries are
\* selected, and the loop over them begins, or the tick is over.
TickSelect(order) ==
  /\ last = NoOp
  /\ loop.pc = "scan"
  /\ ~size_changed(loop.seen, pending_syncs)
  /\ \E S \in ReadySets(loop.seen, pending_syncs, loop.t) :
       order \in Orders(S)
  /\ ops + Len(order) <= MaxOps
  /\ loop' = IF order = <<>> THEN Loop("wait", <<>>) ELSE Loop("fire", order)
  /\ UNCHANGED <<sources, now, engineVars, pending_syncs, running, observer,
                 watcher, heard, ops, faults, passed, last>>
  /\ UNCHANGED outerVars

\* The watcher thread has stored a new entry during the iteration: the
\* iterator raises RuntimeError (dictionary changed size during
\* iteration), which leaves _process_pending_syncs and the loop of
\* start_monitoring, is logged at lines 406-407, and stop_monitoring runs
\* in the finally clause.
TickScanRaises ==
  /\ last = NoOp
  /\ loop.pc = "scan"
  /\ size_changed(loop.seen, pending_syncs)
  /\ running' = FALSE
  /\ observer' = "stopped"
  /\ pending_syncs' = IF watcher.pc = "stamped"
                        THEN Scheduled(pending_syncs, watcher)
                        ELSE pending_syncs
  /\ watcher' = WatcherIdle
  /\ loop' = Loop("done", <<>>)
  /\ UNCHANGED <<sources, now, engineVars, heard, ops, faults, passed, last>>
  /\ UNCHANGED outerVars

\* A loop that leaves the entry it fires in the pending set.
Unscheduled_kept(pending, file_path) == pending

\* del self.pending_syncs[file_path]
Unscheduled(pending, file_path) ==
  [k \in DOMAIN pending \ {file_path} |-> pending[k]]

\* One turn of the loop of _process_pending_syncs up to the middle of
\* sync_note: the entry is deleted, the note is read and, where
\* save_note_file gets that far, its output file is written (lines 430-194).
TickWrite(f) ==
  /\ last = NoOp
  /\ loop.pc = "fire"
  /\ Head(loop.ready_files) \in DOMAIN pending_syncs
  /\ pending_syncs' = Unscheduled(pending_syncs, Head(loop.ready_files))
  /\ target' = sync_note(Engine(target, file_registry, registry_type,
                                metadata_file),
                         sources, Head(loop.ready_files), FALSE, now,
                         WriteOf(f, Head(loop.ready_files)),
                         PersistOf(f, Head(loop.ready_files))).target
  /\ loop' = [pc |-> "record", ready_files |-> Tail(loop.ready_files),
              file_path |-> Head(loop.ready_files), t |-> now, fault |-> f,
              seen |-> EmptyMap]
  /\ heard' = [heard EXCEPT ![Head(loop.ready_files)].fired = @ + 1]
  /\ UNCHANGED <<sources, now, file_registry, registry_type, metadata_file,
                 alive, running, observer, watcher, ops, faults, passed, last>>
  /\ UNCHANGED outerVars

\* The rest of that turn: the registry update and the persist of
\* save_note_file, and the return of sync_note (lines 197-435). The process
\* can die in the persist.
TickRecord ==
  /\ last = NoOp
  /\ loop.pc = "record"
  /\ Commit(Noted(sync_note(Engine(target, file_registry, registry_type,
                                   metadata_file),
                            sources, loop.file_path, FALSE, loop.t,
                            WriteOf(loop.fault, loop.file_path),
                            PersistOf(loop.fault, loop.file_path)),
                  loop.file_path),
            "debounced", {loop.file_path}, FALSE, loop.fault)
  /\ pending_syncs' = IF alive' THEN pending_syncs ELSE EmptyMap
  /\ loop' = IF ~alive' THEN LoopOff
             ELSE IF loop.ready_files = <<>> THEN Loop("wait", <<>>)
             ELSE Loop("fire", loop.ready_files)
  /\ running' = (alive' /\ running)
  /\ observer' = IF alive' THEN observer ELSE "none"
  /\ watcher' = IF alive' THEN watcher ELSE WatcherIdle
  /\ UNCHANGED <<sources, now, heard>>
  /\ UNCHANGED outerVars

\* A signal handler that ends the run where it is (sys.exit in the
\* handler), in the middle of a sync or not.
Signal_exits ==
  /\ last = NoOp
  /\ loop.pc # "off"
  /\ running
  /\ running' = FALSE
  /\ observer' = "stopped"
  /\ pending_syncs' = IF watcher.pc = "stamped"
                        THEN Scheduled(pending_syncs, watcher)
                        ELSE pending_syncs
  /\ watcher' = WatcherIdle
  /\ loop' = Loop("done", <<>>)
  /\ UNCHANGED <<sources, now, engineVars, heard, ops, faults, passed, last>>
  /\ UNCHANGED outerVars

\* _signal_handler, on the main thread: stop_monitoring stops the observer
\* and joins it, which lets a callback in progress finish.
Signal ==
  /\ last = NoOp
  /\ loop.pc # "off"
  /\ running
  /\ running' = FALSE
  /\ observer' = "stopped"
  /\ pending_syncs' = IF watcher.pc = "stamped"
                        THEN Scheduled(pending_syncs, watcher)
                        ELSE pending_syncs
  /\ watcher' = WatcherIdle
  /\ UNCHANGED <<sources, now, engineVars, loop, heard, ops, faults, passed,
                 last>>
  /\ UNCHANGED outerVars

\* while self.running: ... finally: self.stop_monitoring()
LoopExit ==
  /\ last = NoOp
  /\ loop.pc = "wait"
  /\ ~running
  /\ loop' = Loop("done", <<>>)
  /\ UNCHANGED <<sources, now, engineVars, pending_syncs, running, observer,
                 watcher, heard, ops, faults, passed, last>>
  /\ UNCHANGED outerVars

Next ==
  \/ Settle
  \/ \E i \in Ids : \E c \in ContentsOf(i) : Edit(i, c)
  \/ Advance
  \/ \E i \in Ids : \E f \in NoteFaults(i, FALSE) : SyncNote(i, f)
  \/ \E force \in BOOLEAN, order \in Orders(discover_notes(sources)) :
       \E f \in PassFaults(force) : SyncAll(force, order, f)
  \/ Exit
  \/ Start

Spec == Init /\ [][Next]_vars

\* The engine under a configuration that embeds the fingerprint in the
\* filenames or does not.
NamesInit ==
  /\ config \in {SyncConfig, [SyncConfig EXCEPT !.include_hash = FALSE]}
  /\ config_file = ConfigDocument(config)
  /\ WATCHDOG_AVAILABLE = TRUE
  /\ main = NoMain
  /\ text = <<>>
  /\ call = NoCall
  /\ event = NoEvent
  /\ sources \in {s \in [Ids -> RawContents \cup {Missing}] :
                    \A i \in Ids : s[i] \in ContentsOf(i)}
  /\ FreshEngine

SpecNames == NamesInit /\ [][Next]_vars

\* The engine over a source directory where content-A holds text outside
\* ASCII.
SizesInit ==
  /\ sources \in {s \in [Ids -> RawContents \cup {Accented, Missing}] :
                    /\ s["/x/content-A"] = Accented
                    /\ s["/x/content-B"] \in ContentsOf("/x/content-B")}
  /\ Constructed

SpecSizes == SizesInit /\ [][Next]_vars

\* A monitoring run: start_monitoring on a fresh engine.
MonInit ==
  /\ sources \in {s \in [Ids -> RawContents \cup {Missing}] :
                    \A i \in Ids : s[i] \in ContentsOf(i) \ {" \n", "Plan\neggs\n"}}
  /\ sources["/x/content-B"] # Missing
  /\ Constructed

MonNext ==
  \/ Settle
  \/ MonAdvance
  \/ StartMonitoring
  \/ \E i \in Ids : NotifyStamp(i)
  \/ NotifyStore
  \/ \E order \in AllOrders : TickScan(order)
  \/ /\ loop.pc = "fire"
     /\ \E f \in NoteFaults(Head(loop.ready_files), FALSE) : TickWrite(f)
  \/ TickRecord
  \/ Signal
  \/ LoopExit

SpecMon == MonInit /\ [][MonNext]_vars

\* What an earlier run can have left in the target directory: nothing, or
\* the output file and the record of content-A synced at time 0.
LeftRegistry ==
  Upsert(EmptyMap, "/x/content-A",
         generate_filename("Plan\nmilk", "/x/content-A", 0), "Plan\nmilk", 0,
         format_content("Plan\nmilk", "/x/content-A").chars)

LeftTarget ==
  Written(EmptyMap, generate_filename("Plan\nmilk", "/x/content-A", 0),
          "/x/content-A", "Plan\nmilk", TRUE)

\* What the cloud client can bring into the target directory, which it
\* synchronizes with other machines: the output file and the ledger file
\* of the engine of another machine, for a note of that machine.
BroughtRegistry ==
  Upsert(EmptyMap, "/y/content-Z",
         generate_filename("Plan\neggs", "/y/content-Z", 0), "Plan\neggs", 0,
         format_content("Plan\neggs", "/y/content-Z").chars)

BroughtTarget ==
  generate_filename("Plan\neggs", "/y/content-Z", 0)
    :> [by |-> "other", source |-> "/y/content-Z", body |-> "Plan\neggs",
        complete |-> TRUE]

\* The ledger files a start can find: none, a complete mapping, a document
\* that does not parse, a document that parses to something else.
LedgerFiles(left) ==
  CASE left = "own" ->
         {NoDocument, TornDocument, ListDocument, Document(LeftRegistry)}
    [] left = "brought" -> {Document(BroughtRegistry)}
    [] OTHER -> {NoDocument, TornDocument, ListDocument}

\* A start of the engine over what an earlier run, or anyone else, left.
LoadInit ==
  /\ sources \in {s \in [Ids -> RawContents \cup {Missing}] :
                    \A i \in Ids : s[i] \in ContentsOf(i)}
  /\ AsObject
  /\ \E left \in {"nothing", "own", "brought"} :
       /\ target = CASE left = "own" -> LeftTarget
                      [] left = "brought" -> BroughtTarget
                      [] OTHER -> EmptyMap
       /\ metadata_file \in LedgerFiles(left)
  /\ now = 0
  /\ file_registry = EmptyMap
  /\ registry_type = "dict"
  /\ alive = FALSE
  /\ pending_syncs = EmptyMap
  /\ running = FALSE
  /\ observer = "none"
  /\ watcher = WatcherIdle
  /\ loop = LoopOff
  /\ ops = 0
  /\ faults = 0
  /\ passed = NoPass
  /\ heard = [i \in Ids |-> NotHeard]
  /\ last = NoOp

\* A ledger whose record of content-A holds the fingerprint and the time
\* of the sync and no output filename (the ledger of test_metadata_loading).
PartialRegistry ==
  "/x/content-A" :> [content_hash |-> "h-milk", last_synced |-> 0]

\* A start of the engine over such a ledger.
PartialInit ==
  /\ sources \in {s \in [Ids -> RawContents \cup {Missing}] :
                    \A i \in Ids : s[i] \in ContentsOf(i)}
  /\ AsObject
  /\ target = EmptyMap
  /\ metadata_file = Document(PartialRegistry)
  /\ now = 0
  /\ file_registry = EmptyMap
  /\ registry_type = "dict"
  /\ alive = FALSE
  /\ pending_syncs = EmptyMap
  /\ running = FALSE
  /\ observer = "none"
  /\ watcher = WatcherIdle
  /\ loop = LoopOff
  /\ ops = 0
  /\ faults = 0
  /\ passed = NoPass
  /\ heard = [i \in Ids |-> NotHeard]
  /\ last = NoOp

LoadNext ==
  \/ Settle
  \/ Start
  \/ \E i \in Ids : \E c \in ContentsOf(i) : Edit(i, c)
  \/ \E i \in Ids : \E f \in NoteFaults(i, FALSE) : SyncNote(i, f)
  \/ \E force \in BOOLEAN, order \in Orders(discover_notes(sources)) :
       \E f \in PassFaults(force) : SyncAll(force, order, f)
  \/ \E i \in Ids : \E c \in {Strip(raw) : raw \in RawContents} :
       IsContentChanged(i, c)

SpecLoad == LoadInit /\ [][LoadNext]_vars

SpecPartial == PartialInit /\ [][LoadNext]_vars

\* A monitoring run over two notes that are there, without faults of the
\* environment, whose main thread keeps running: no step of the main thread
\* stays possible for ever without being taken.
StopInit ==
  /\ sources = [i \in Ids |-> "Plan\nmilk\n"]
  /\ Constructed

StopNext ==
  \/ Settle
  \/ MonAdvance
  \/ StartMonitoring
  \/ \E i \in Ids : NotifyStamp(i)
  \/ NotifyStore
  \/ \E order \in AllOrders : TickScan(order)
  \/ TickWrite(NoFault)
  \/ TickRecord
  \/ Signal
  \/ LoopExit

SpecStop ==
  /\ StopInit
  /\ [][StopNext]_vars
  /\ WF_vars(Settle)
  /\ WF_vars(TickWrite(NoFault))
  /\ WF_vars(TickRecord)
  /\ WF_vars(LoopExit)

\* A notification that comes early enough in the run for its not-before
\* time to come, and for its sync to be counted, within the bounds.
Notified(i) ==
  /\ now + debounce_seconds <= MaxMonTime
  /\ heard["/x/content-A"].notes + heard["/x/content-B"].notes < MaxOps
  /\ NotifyStamp(i)

DebounceNext ==
  \/ Settle
  \/ MonAdvance
  \/ StartMonitoring
  \/ \E i \in Ids : Notified(i)
  \/ NotifyStore
  \/ \E order \in AllOrders : TickScan(order)
  \/ TickWrite(NoFault)
  \/ TickRecord
  \/ Signal
  \/ LoopExit

\* The steps of the main thread in the loop of start_monitoring.
LoopThread ==
  \/ Settle
  \/ \E order \in AllOrders : TickScan(order)
  \/ TickWrite(NoFault)
  \/ TickRecord

\* A monitoring run in which time passes, a callback of the watcher thread
\* runs to its end, and the main thread keeps running: while self.running
\* holds, the loop of lines 400-402 ticks again after each sleep.
SpecDebounce ==
  /\ StopInit
  /\ [][DebounceNext]_vars
  /\ WF_vars(MonAdvance)
  /\ WF_vars(NotifyStore)
  /\ WF_vars(LoopThread)

\* A monitoring run with the scan of the pending set in its steps: the
\* watcher thread can store an entry while the main thread iterates.
RaceNext ==
  \/ Settle
  \/ MonAdvance
  \/ StartMonitoring
  \/ \E i \in Ids : NotifyStamp(i)
  \/ NotifyStore
  \/ TickScanBegin
  \/ \E order \in AllOrders : TickSelect(order)
  \/ TickScanRaises
  \/ TickWrite(NoFault)
  \/ TickRecord
  \/ Signal
  \/ LoopExit

SpecRace == StopInit /\ [][RaceNext]_vars

\* A monitoring run in which the observer delivers every kind of
\* notification, for the notes and for what else the directory holds.
EventsNext ==
  \/ Settle
  \/ MonAdvance
  \/ StartMonitoring
  \/ \E ev \in Events : Dispatch(ev)
  \/ NotifyStore
  \/ \E order \in AllOrders : TickScan(order)
  \/ TickWrite(NoFault)
  \/ TickRecord
  \/ Signal
  \/ LoopExit

SpecEvents == StopInit /\ [][EventsNext]_vars

(* ------------------------- the command line --------------------------- *)

\* The configuration documents load_config can find besides a missing one
\* and a mapping of known keys: text that is no JSON, a JSON array, a
\* mapping with a key SyncConfig does not know.
Unparsable == [kind |-> "unparsable", data |-> SyncConfig]
ConfigArray == [kind |-> "array", data |-> SyncConfig]
UnknownKey == [kind |-> "unknown_key", data |-> SyncConfig]

\* The document load_config writes where it finds none: what SyncConfig
\* makes of its six keys is the default configuration.
default_config == SyncConfig

\* A load_config that goes on with the defaults after it has written them.
load_config_goes_on(file) ==
  CASE file.kind = "missing" ->
         [file |-> ConfigDocument(default_config), exit |-> -1,
          config |-> default_config]
    [] file.kind = "mapping" ->
         [file |-> file, exit |-> -1, config |-> file.data]
    [] OTHER -> [file |-> file, exit |-> 1, config |-> SyncConfig]

\* load_config: the document it leaves, the code of its sys.exit (-1 when
\* it returns) and the configuration it returns.
load_config(file) ==
  CASE file.kind = "missing" ->
         [file |-> ConfigDocument(default_config), exit |-> 0,
          config |-> SyncConfig]
    [] file.kind = "mapping" ->
         [file |-> file, exit |-> -1, config |-> file.data]
    [] OTHER -> [file |-> file, exit |-> 1, config |-> SyncConfig]

Exited(code) == [main EXCEPT !.pc = "exited", !.exit_code = code]

\* The module is executed up to main(): the import of watchdog (lines
\* 26-31) and the class statements; XpadFileMonitor(FileSystemEventHandler)
\* raises NameError where the import failed.
Import ==
  /\ main.pc = "import"
  /\ main' = IF WATCHDOG_AVAILABLE THEN [main EXCEPT !.pc = "main"]
             ELSE Exited(1)
  /\ UNCHANGED <<sources, now, engineVars, monitorVars, ops, faults, passed,
                 last, config, config_file, WATCHDOG_AVAILABLE, text, call, event>>

\* main() up to config = load_config(args.config)
LoadConfig ==
  /\ main.pc = "main"
  /\ config_file' = load_config(config_file).file
  /\ config' = load_config(config_file).config
  /\ main' = IF load_config(config_file).exit >= 0
               THEN [Exited(load_config(config_file).exit)
                       EXCEPT !.found = config_file.kind]
               ELSE [main EXCEPT !.pc = "construct",
                                 !.found = config_file.kind]
  /\ UNCHANGED <<sources, now, engineVars, monitorVars, ops, faults, passed,
                 last, WATCHDOG_AVAILABLE, text, call, event>>

\* sync_engine = XpadGDriveSync(config): GoogleDriveSync.__init__ loads the
\* ledger.
MainConstruct ==
  /\ main.pc = "construct"
  /\ alive' = TRUE
  /\ file_registry' = load_metadata(metadata_file)
  /\ registry_type' = loaded_type(metadata_file)
  /\ main' = [main EXCEPT !.pc = "command"]
  /\ UNCHANGED <<sources, now, target, metadata_file, monitorVars, ops,
                 faults, passed, last, config, config_file,
                 WATCHDOG_AVAILABLE, text, call, event>>

\* The sync command: results = sync_engine.sync_all_notes(force=args.force)
MainSync(order) ==
  /\ main.pc = "command"
  /\ main.command = "sync"
  /\ Commit(sync_all_notes(Engine(target, file_registry, registry_type,
                                  metadata_file),
                           sources, main.force, order, now, NoFault),
            "sync_all_notes", {order[k] : k \in DOMAIN order}, main.force,
            NoFault)
  /\ main' = [main EXCEPT !.pc = "return",
                          !.exit_code = IF last'.raised THEN 1 ELSE 0]
  /\ UNCHANGED <<sources, now, monitorVars, config, config_file,
                 WATCHDOG_AVAILABLE, text, call, event>>

\* The monitor command up to its start_monitoring: the initial sync.
MainInitialSync(order) ==
  /\ main.pc = "command"
  /\ main.command = "monitor"
  /\ Commit(sync_all_notes(Engine(target, file_registry, registry_type,
                                  metadata_file),
                           sources, FALSE, order, now, NoFault),
            "sync_all_notes", {order[k] : k \in DOMAIN order}, FALSE,
            NoFault)
  /\ main' = [main EXCEPT !.pc = IF alive' THEN "monitor" ELSE "return",
                          !.exit_code = IF last'.raised THEN 1 ELSE 0]
  /\ UNCHANGED <<sources, now, monitorVars, config, config_file,
                 WATCHDOG_AVAILABLE, text, call, event>>

\* start_monitoring returns at once: monitoring is disabled, or watchdog is
\* not available (lines 382-388).
MonitoringSkipped ==
  /\ main.pc = "monitor"
  /\ loop.pc = "off"
  /\ ~config.enable_realtime \/ ~WATCHDOG_AVAILABLE
  /\ main' = [main EXCEPT !.pc = "return", !.exit_code = 0]
  /\ UNCHANGED <<sources, now, engineVars, monitorVars, ops, faults, passed,
                 last, config, config_file, WATCHDOG_AVAILABLE, text, call, event>>

\* The status command: counts and paths are printed.
MainStatus ==
  /\ main.pc = "command"
  /\ main.command = "status"
  /\ main' = [main EXCEPT !.pc = "return", !.exit_code = 0]
  /\ UNCHANGED <<sources, now, engineVars, monitorVars, ops, faults, passed,
                 last, config, config_file, WATCHDOG_AVAILABLE, text, call, event>>

\* main() returns and the process ends: 0, or 1 after an exception that
\* left the command.
MainReturn ==
  /\ \/ main.pc = "return"
     \/ main.pc = "monitor" /\ loop.pc = "done"
  /\ main' = Exited(IF main.pc = "return" THEN main.exit_code ELSE 0)
  /\ alive' = FALSE
  /\ file_registry' = EmptyMap
  /\ registry_type' = "dict"
  /\ UNCHANGED <<sources, now, target, metadata_file, monitorVars, ops,
                 faults, passed, last, config, config_file,
                 WATCHDOG_AVAILABLE, text, call, event>>

\* The configuration documents of the model.
ConfigFiles ==
  {NoConfigFile, Unparsable, ConfigArray, UnknownKey,
   ConfigDocument(SyncConfig),
   ConfigDocument([SyncConfig EXCEPT !.enable_realtime = FALSE])}

\* The command lines of the model.
CommandLines ==
  [command : {"sync"}, force : BOOLEAN]
    \cup [command : {"monitor", "status"}, force : {FALSE}]

\* A process of the program is started from the command line, over the
\* target directory an earlier run left.
MainInit ==
  /\ config = SyncConfig
  /\ config_file \in ConfigFiles
  /\ WATCHDOG_AVAILABLE \in BOOLEAN
  /\ text = <<>>
  /\ call = NoCall
  /\ event = NoEvent
  /\ sources \in {s \in [Ids -> RawContents \cup {Missing}] :
                    /\ s["/x/content-A"] \in {"Plan\nmilk\n", Missing}
                    /\ s["/x/content-B"] = "Plan\neggs\n"}
  /\ \E left \in {"nothing", "own"} :
       /\ target = IF left = "own" THEN LeftTarget ELSE EmptyMap
       /\ metadata_file = IF left = "own" THEN Document(LeftRegistry)
                          ELSE NoDocument
  /\ \E line \in CommandLines :
       main = [NoMain EXCEPT !.pc = "import", !.command = line.command,
                             !.force = line.force,
                             !.pre = [target |-> target,
                                      disk |-> metadata_file]]
  /\ now = 0
  /\ file_registry = EmptyMap
  /\ registry_type = "dict"
  /\ alive = FALSE
  /\ pending_syncs = EmptyMap
  /\ running = FALSE
  /\ observer = "none"
  /\ watcher = WatcherIdle
  /\ loop = LoopOff
  /\ ops = 0
  /\ faults = 0
  /\ passed = NoPass
  /\ heard = [i \in Ids |-> NotHeard]
  /\ last = NoOp

MainNext ==
  \/ Import
  \/ LoadConfig
  \/ MainConstruct
  \/ \E order \in Orders(discover_notes(sources)) : MainSync(order)
  \/ \E order \in Orders(discover_notes(sources)) : MainInitialSync(order)
  \/ MonitoringSkipped
  \/ MainStatus
  \/ Settle
  \/ main.pc = "monitor" /\ StartMonitoring
  \/ Signal
  \/ LoopExit
  \/ MainReturn

SpecMain == MainInit /\ [][MainNext]_vars

\* The monitor command on a fresh target directory, from the call of
\* sync_all_notes on (lines 491-497), over two notes.
StartupInit ==
  /\ config = SyncConfig
  /\ config_file = ConfigDocument(SyncConfig)
  /\ WATCHDOG_AVAILABLE = TRUE
  /\ main = [NoMain EXCEPT !.pc = "command", !.command = "monitor"]
  /\ text = <<>>
  /\ call = NoCall
  /\ event = NoEvent
  /\ sources = [i \in Ids |-> "Plan\nmilk\n"]
  /\ FreshEngine

\* The note application rewrites a note. An observer that has been started
\* (line 394) delivers the notification of the change, and its callback
\* runs up to line 257; before that nothing watches the directory, and
\* no notification comes of the change.
Modify(i, c) ==
  /\ last = NoOp
  /\ main.pc \in {"command", "monitor"}
  /\ sources[i] # c
  /\ sources' = [sources EXCEPT ![i] = c]
  /\ passed' = NoPass
  /\ IF observer = "started"
       THEN /\ watcher.pc = "idle"
            /\ heard[i].notes < MaxNotes
            /\ now + debounce_seconds <= MaxMonTime
            /\ ops + heard["/x/content-A"].notes
                   + heard["/x/content-B"].notes < MaxOps
            /\ watcher' = [pc |-> "stamped", file_path |-> i,
                           schedule_time |-> now + debounce_seconds]
            /\ heard' = [heard EXCEPT ![i] = Hears(heard[i], now)]
       ELSE /\ observer = "none"
            /\ UNCHANGED <<watcher, heard>>
  /\ UNCHANGED <<now, engineVars, pending_syncs, running, observer, loop,
                 ops, faults, last>>
  /\ UNCHANGED outerVars

StartupNext ==
  \/ \E order \in Orders(discover_notes(sources)) : MainInitialSync(order)
  \/ main.pc = "monitor" /\ StartMonitoring
  \/ \E i \in Ids : \E c \in {"Plan\nmilk\n", "Plan\neggs\n"} : Modify(i, c)
  \/ Settle
  \/ MonAdvance
  \/ NotifyStore
  \/ \E order \in AllOrders : TickScan(order)
  \/ TickWrite(NoFault)
  \/ TickRecord
  \/ Signal
  \/ LoopExit
  \/ MainReturn

\* The monitor command runs on: once the initial sync has returned, main()
\* goes on to start_monitoring, time passes, callbacks run to their end
\* and the loop of lines 400-402 ticks while self.running holds.
SpecStartup ==
  /\ StartupInit
  /\ [][StartupNext]_vars
  /\ WF_vars((main.pc = "monitor" /\ StartMonitoring) \/ LoopThread)
  /\ WF_vars(MonAdvance)
  /\ WF_vars(NotifyStore)

(* ------------------- calls of the NoteProcessor ----------------------- *)

\* The longest content that is taken character by character from the
\* whole alphabet.
MaxTextLen == 5

\* One character of each kind extract_title tells apart: a letter, a
\* hyphen, a space, a newline, a heading marker, an emphasis mark,
\* punctuation, a letter that is not ASCII.
Alphabet == {"a", "-", " ", "\n", "#", "_", "!", NonAscii}

Texts == UNION {[1..n -> Alphabet] : n \in 0..MaxTextLen}

\* The configuration the contents of Texts are processed under: its
\* titles are short enough to be cut.
ShortConfig == [SyncConfig EXCEPT !.title_max_length = 4]

\* The contents that are processed under every configuration of the
\* model: the shortest ones, and two of one long line.
SampleTexts ==
  UNION {[1..n -> Alphabet] : n \in 0..2}
    \cup {[k \in 1..n |-> "a"] : n \in {60, 220}}

\* The configurations of the model: the default and those that differ from
\* it in the title length, the prefix, the fingerprint or the format.
Configs ==
  {[SyncConfig EXCEPT !.title_max_length = m, !.prefix = p,
                      !.include_hash = h, !.note_format = f] :
     m \in {50, 250}, p \in {xpad_note_, [k \in 1..150 |-> "p"]},
     h \in BOOLEAN, f \in {"markdown", "plain"}}

\* NoteProcessor(config) and a content to process.
ProcessorInit ==
  /\ \/ text \in Texts /\ config = ShortConfig
     \/ text \in SampleTexts /\ config \in Configs
  /\ config_file = ConfigDocument(config)
  /\ WATCHDOG_AVAILABLE = TRUE
  /\ main = NoMain
  /\ call = NoCall
  /\ event = NoEvent
  /\ sources = [i \in Ids |-> Missing]
  /\ FreshEngine

\* What a call of the processor leaves with its caller: the value it
\* returned, or that it raised.
Called(op, r, t) == [op |-> op, result |-> r.name, raised |-> r.raised, t |-> t]

\* self.processor.extract_title(content)
ExtractTitle ==
  /\ call = NoCall
  /\ call' = Called("extract_title",
                    [name |-> extract_title_chars(text, title_max_length),
                     raised |-> FALSE],
                    now)
  /\ UNCHANGED <<sources, now, engineVars, monitorVars, ops, faults, passed,
                 last, config, config_file, WATCHDOG_AVAILABLE, main, text, event>>

\* self.processor.generate_filename(content, source_file)
GenerateFilename ==
  /\ call = NoCall
  /\ call' = Called("generate_filename",
                    generate_filename_chars(text, "/x/content-A", now), now)
  /\ UNCHANGED <<sources, now, engineVars, monitorVars, ops, faults, passed,
                 last, config, config_file, WATCHDOG_AVAILABLE, main, text, event>>

ProcessorNext ==
  \/ ExtractTitle
  \/ GenerateFilename

SpecProcessor == ProcessorInit /\ [][ProcessorNext]_vars

(* ------------------------------ properties ---------------------------- *)

\* C1 as stated: when sync_all_notes(force=False) has run and returned
\* twice with no source change in between, the second run has written no
\* file and every record the first run left is still there, unchanged.
C1_AsStated ==
  (/\ last.op = "sync_all_notes" /\ ~last.force /\ ~last.crashed
   /\ last.after.done /\ ~last.after.force)
    => /\ last.wrote = {}
       /\ \A s \in DOMAIN last.pre.reg :
            s \in DOMAIN file_registry /\ file_registry[s] = last.pre.reg[s]

\* C1: when sync_all_notes(force=False) has run and returned twice with no
\* source change in between, then for every source the first run reported
\* as synced, the second run has written no file and the record the first
\* run left is still there, unchanged. (A source the first run failed on is
\* tried again by the second.)
C1_Idempotence ==
  (/\ last.op = "sync_all_notes" /\ ~last.force /\ ~last.crashed
   /\ last.after.done /\ ~last.after.force)
    => \A s \in DOMAIN last.after.results :
         last.after.results[s]
           => /\ s \notin last.wrote
              /\ s \in DOMAIN last.pre.reg
              /\ s \in DOMAIN file_registry
              /\ file_registry[s] = last.pre.reg[s]

\* C1 witness: a second pass in a row has returned, over a source the first
\* pass wrote a record for.
C1_Witness ==
  /\ last.op = "sync_all_notes" /\ ~last.force /\ ~last.crashed
  /\ last.after.done /\ ~last.after.force
  /\ \E s \in DOMAIN last.after.results :
       last.after.results[s] /\ s \in DOMAIN file_registry

C3_PassEndsWithCleanup ==
  (last.op = "sync_all_notes" /\ ~last.crashed)
    => DOMAIN file_registry \subseteq last.ids

\* C4: the notifications for one identity that come each less than the
\* debounce delay after the one before lead to one debounced sync of that
\* identity, not more: an identity has had no more debounced syncs than
\* bursts of notifications.
C4_OneSyncPerBurst ==
  \A i \in Ids : heard[i].fired <= heard[i].bursts

\* C5: the main loop does not start the debounced sync of an identity
\* earlier than the debounce delay after the latest notification for that
\* identity that the watcher thread has delivered in full (no callback is
\* in progress).
C5_NotBeforeDelay ==
  [][(loop.pc = "fire" /\ loop'.pc = "record" /\ watcher.pc = "idle")
       => now >= heard[loop'.file_path].at + debounce_seconds]_vars

\* C11: a start that finds the ledger file missing or not a well-formed
\* mapping loads the empty mapping, and a following sync_all_notes that
\* meets no fault returns and syncs and records every note that is there,
\* non-empty and within the size limit.
C11_SelfHealingLoad ==
  /\ (last.op = "start" /\ last.pre.disk.kind # "map")
       => file_registry = EmptyMap /\ registry_type = "dict"
  /\ (/\ last.op = "sync_all_notes" /\ last.pre.disk.kind # "map"
      /\ last.pre.reg = EmptyMap /\ last.fault = NoFault)
       => /\ ~last.raised
          /\ \A i \in last.ids :
               Writes(last.pre.reg, sources, i, last.force)
                 => /\ i \in DOMAIN last.results /\ last.results[i]
                    /\ i \in DOMAIN file_registry

\* C6: when sync_note is called for a note whose formatted content is
\* larger than the maximum, it returns False, writes no file and leaves the
\* ledger in memory and on disk as it was.
C6_SizeRejection ==
  \A i \in Ids :
    (/\ last.op = "sync_note" /\ last.ids = {i}
     /\ sources[i] # Missing
     /\ format_content(Strip(sources[i]), i).bytes
          > max_file_size_mb * 1024 * 1024)
      => /\ last.results[i] = FALSE
         /\ target = last.pre.target
         /\ file_registry = last.pre.reg
         /\ metadata_file = last.pre.disk

\* C6 witness: sync_note has returned for an oversized note.
C6_Witness ==
  \E i \in Ids :
    /\ last.op = "sync_note" /\ last.ids = {i}
    /\ sources[i] # Missing
    /\ format_content(Strip(sources[i]), i).bytes
         > max_file_size_mb * 1024 * 1024

\* C7: when the write of a note's output file fails, the note's outcome is
\* False and its record is as before the call (none created, none
\* modified); after a sync_note the whole ledger, in memory and on disk, is
\* as before the call.
C7_WriteFailureLeavesLedger ==
  (last.op \in {"sync_note", "sync_all_notes"} /\ last.fault.on = "write")
    => /\ last.results[last.fault.at] = FALSE
       /\ last.fault.at \in DOMAIN file_registry
            <=> last.fault.at \in DOMAIN last.pre.reg
       /\ last.fault.at \in DOMAIN file_registry
            => file_registry[last.fault.at] = last.pre.reg[last.fault.at]
       /\ last.op = "sync_note"
            => file_registry = last.pre.reg /\ metadata_file = last.pre.disk

\* C7 witness: a sync_note whose write failed has returned.
C7_Witness ==
  /\ last.op = "sync_note" /\ last.fault.on = "write"
  /\ last.results[last.fault.at] = FALSE

\* C8: every record of the ledger names a file of the target directory.
C8_RecordsNameFiles ==
  alive => \A s \in DOMAIN file_registry :
             file_registry[s].output_file \in DOMAIN target

\* C9: when an operation that changed the ledger in memory has returned,
\* the ledger on disk is the ledger in memory.
C9_LedgerDurable ==
  (/\ last.op \in {"sync_note", "sync_all_notes"} /\ ~last.crashed
   /\ file_registry # last.pre.reg)
    => metadata_file = Document(file_registry)

\* C10: when the process has died during a persist, the ledger on disk is
\* the complete document of before the persist or the complete new one.
C10_CrashSafePersist ==
  last.crashed => metadata_file \in {last.persist.old, last.persist.new}

\* C12: after a sync_note or a pass that returned success for a note, the
\* note's record holds the fingerprint of the note's content, so that
\* is_content_changed is false for it; when a sync_note wrote the note, the
\* record names the file just written, which is in the target directory
\* with the note's content.
C12_RecordAfterSync ==
  \A i \in Ids :
    (/\ last.op \in {"sync_note", "sync_all_notes"}
     /\ ~last.crashed /\ ~last.raised
     /\ i \in DOMAIN last.results /\ last.results[i])
      => /\ i \in DOMAIN file_registry
         /\ file_registry[i].content_hash
              = calculate_content_hash(Strip(sources[i]))
         /\ ~is_content_changed(file_registry, i, Strip(sources[i]))
         /\ (last.op = "sync_note" /\ i \in last.wrote)
              => /\ file_registry[i].output_file
                      = generate_filename(Strip(sources[i]), i, now)
                 /\ file_registry[i].output_file \in DOMAIN target
                 /\ target[file_registry[i].output_file].body
                      = Strip(sources[i])

\* C12 witness: a sync_note that wrote its note has returned success.
C12_Witness ==
  \E i \in Ids :
    /\ last.op = "sync_note" /\ ~last.crashed
    /\ i \in last.wrote /\ last.results[i]

\* C13: is_content_changed answers true exactly when the ledger has no
\* record for the identity or the record's fingerprint is not the
\* fingerprint of the content, and it leaves the ledger, in memory and on
\* disk, and the target directory as they were.
C13_HasChanged ==
  \A i \in Ids :
    (last.op = "is_content_changed" /\ last.ids = {i})
      => /\ last.results[i]
              = (\/ i \notin DOMAIN last.pre.reg
                 \/ last.pre.reg[i].content_hash
                      # calculate_content_hash(last.content))
         /\ file_registry = last.pre.reg
         /\ metadata_file = last.pre.disk
         /\ target = last.pre.target

\* C13 witness: is_content_changed has answered true for an identity that
\* has a record.
C13_Witness ==
  \E i \in Ids :
    /\ last.op = "is_content_changed" /\ last.ids = {i}
    /\ i \in DOMAIN last.pre.reg
    /\ last.results[i]

\* C14: a note whose content is empty or whitespace only gets the outcome
\* False from sync_note and from a pass, forced or not, with or without a
\* record; it is not written and its record, if any, stays as it was.
C14_EmptySkipped ==
  \A i \in Ids :
    (/\ last.op \in {"sync_note", "sync_all_notes"} /\ ~last.crashed
     /\ i \in last.ids
     /\ sources[i] # Missing /\ Strip(sources[i]) = "")
      => /\ last.results[i] = FALSE
         /\ i \notin last.wrote
         /\ i \in DOMAIN file_registry <=> i \in DOMAIN last.pre.reg
         /\ i \in DOMAIN file_registry
              => file_registry[i] = last.pre.reg[i]
         /\ last.op = "sync_note"
              => /\ target = last.pre.target
                 /\ file_registry = last.pre.reg
                 /\ metadata_file = last.pre.disk

\* C14 witness: a forced pass has returned over an empty note that has a
\* record.
C14_Witness ==
  \E i \in Ids :
    /\ last.op = "sync_all_notes" /\ last.force /\ ~last.crashed
    /\ i \in last.ids /\ sources[i] # Missing /\ Strip(sources[i]) = ""
    /\ i \in DOMAIN last.pre.reg

SameFor(j, alt) ==
  /\ j \in DOMAIN last.results /\ j \in DOMAIN alt.results
  /\ last.results[j] = alt.results[j]
  /\ j \in DOMAIN file_registry <=> j \in DOMAIN alt.reg
  /\ j \in DOMAIN file_registry
       => /\ file_registry[j] = alt.reg[j]
          /\ file_registry[j].output_file \in DOMAIN target
               <=> alt.reg[j].output_file \in DOMAIN alt.target
          /\ file_registry[j].output_file \in DOMAIN target
               => target[file_registry[j].output_file].complete
                    = alt.target[alt.reg[j].output_file].complete

\* C15: when one note of a pass fails (it is oversized, or the write of its
\* output file fails), its outcome is False, the pass returns an outcome
\* for every note it discovered, and every other note has the outcome, the
\* record and the output file of the pass run from the same state without
\* the failing note.
C15_FailureIsolation ==
  \A i \in Ids :
    (/\ last.op = "sync_all_notes" /\ ~last.crashed /\ i \in last.ids
     /\ last.fault.at \in {i, "none"}
     /\ \/ last.fault = [on |-> "write", at |-> i, how |-> last.fault.how]
        \/ /\ sources[i] # Missing
           /\ format_content(Strip(sources[i]), i).bytes
                > max_file_size_mb * 1024 * 1024)
      => /\ last.results[i] = FALSE
         /\ DOMAIN last.results = last.ids
         /\ \A j \in last.ids \ {i} :
              \A order \in Orders(last.ids \ {i}) :
                SameFor(j, sync_all_notes(
                             Engine(last.pre.target, last.pre.reg, "dict",
                                    last.pre.disk),
                             [sources EXCEPT ![i] = Missing], last.force,
                             order, now, NoFault))

\* C17: the callback on the watcher thread does not write the pending set:
\* the step that ends a callback leaves pending_syncs as it was.
C17_PureHandOff ==
  [][(watcher.pc = "stamped" /\ watcher'.pc = "idle" /\ alive')
       => pending_syncs' = pending_syncs]_vars

\* C18: while a debounced sync is in progress on the main thread (its file
\* written, its record not yet), no other step changes the target
\* directory or the ledger, and every step that changes them is a step of
\* the main thread: the watcher thread is where it was.
C18_SerialSyncs ==
  [][/\ (loop.pc = "record" /\ loop'.pc = "record")
          => /\ target' = target
             /\ file_registry' = file_registry
             /\ metadata_file' = metadata_file
     /\ (alive' /\ (\/ target' # target
                    \/ file_registry' # file_registry
                    \/ metadata_file' # metadata_file))
          => watcher' = watcher /\ loop' # loop]_vars

\* C18 witness: a notification comes in while a debounced sync is in
\* progress.
C18_Witness ==
  loop.pc = "record" /\ watcher.pc = "stamped"

\* C19: the loop of a tick fires only identities that have a pending entry
\* whose time has come, each once; firing an identity removes its entry
\* (the identity is idle again) and makes one sync attempt.
C19_FiresOnce ==
  [][/\ (loop.pc = "wait" /\ loop'.pc = "fire")
          => /\ \A k \in DOMAIN loop'.ready_files :
                  /\ loop'.ready_files[k] \in DOMAIN pending_syncs
                  /\ now >= pending_syncs[loop'.ready_files[k]]
             /\ \A j, k \in DOMAIN loop'.ready_files :
                  j # k => loop'.ready_files[j] # loop'.ready_files[k]
     /\ (loop.pc = "fire" /\ loop'.pc = "record")
          => /\ loop'.file_path \in DOMAIN pending_syncs
             /\ loop'.file_path \notin DOMAIN pending_syncs'
             /\ heard'[loop'.file_path].fired
                  = heard[loop'.file_path].fired + 1
             /\ \A k \in DOMAIN loop'.ready_files :
                  loop'.ready_files[k] # loop'.file_path]_vars

\* C19 witness: a debounced sync has failed and its identity is idle.
C19_Witness ==
  \E i \in Ids :
    /\ last.op = "debounced" /\ last.ids = {i} /\ ~last.crashed
    /\ last.results[i] = FALSE
    /\ i \notin DOMAIN pending_syncs

\* C20: once a signal has come while the loop of start_monitoring is
\* active, the loop ends with the observer stopped (unless the process dies
\* first), and a sync that is in progress leaves that state only by
\* running to its end.
C20_CooperativeShutdown ==
  /\ (alive /\ ~running /\ loop.pc \in {"wait", "fire", "record"})
       ~> ((loop.pc = "done" /\ observer = "stopped") \/ ~alive)
  /\ [][(loop.pc = "record" /\ loop'.pc # "record")
          => last'.op = "debounced"]_vars

\* C20 witness: a signal has come while a sync is in progress.
C20_Witness ==
  alive /\ ~running /\ loop.pc = "record"

\* C21: once load_config has found the configuration document missing or
\* malformed (no JSON, no mapping, a mapping with an unknown key), the
\* process has exited, with code 0 and the default document written where
\* the document was missing and with a code other than 0 where it was
\* malformed, and it has done no sync work: the target directory and the
\* ledger file are as the process found them, no ledger was loaded, no
\* pass ran and no observer was started.
C21_FatalStartup ==
  main.found \in {"missing", "unparsable", "array", "unknown_key"}
    => /\ main.pc = "exited"
       /\ main.found = "missing"
            => /\ main.exit_code = 0
               /\ config_file = ConfigDocument(default_config)
       /\ main.found # "missing"
            => main.exit_code # 0 /\ config_file.kind = main.found
       /\ target = main.pre.target
       /\ metadata_file = main.pre.disk
       /\ ~alive /\ file_registry = EmptyMap
       /\ ops = 0
       /\ observer = "none" /\ loop.pc = "off"

\* C21 witness: the sync command has exited over a missing configuration
\* document, with notes to sync in the source directory.
C21_Witness ==
  /\ main.pc = "exited" /\ main.found = "missing"
  /\ main.command = "sync"
  /\ discover_notes(sources) # {}

\* C22: where watchdog is not installed, the sync command and the monitor
\* command, over a configuration document that loads, end with code 0
\* after one full pass has run, and no observer was started.
C22_OneShotWithoutWatchdog ==
  (/\ ~WATCHDOG_AVAILABLE /\ main.pc = "exited"
   /\ config_file.kind = "mapping" /\ main.command \in {"sync", "monitor"})
    => /\ main.exit_code = 0
       /\ ops = 1
       /\ observer = "none"

\* C23: when a note that has a record and whose content is no longer the
\* content recorded is synced again with success, the output file written
\* for it before is still in the target directory as it was, and the file
\* written now has another name.
C23_ResyncAddsFile ==
  \A i \in Ids :
    (/\ last.op \in {"sync_note", "sync_all_notes"} /\ ~last.crashed
     /\ i \in last.wrote /\ last.results[i]
     /\ i \in DOMAIN last.pre.reg
     /\ last.pre.reg[i].content_hash
          # calculate_content_hash(Strip(sources[i]))
     /\ last.pre.reg[i].output_file \in DOMAIN last.pre.target
     /\ last.pre.target[last.pre.reg[i].output_file].source = i)
      => /\ last.pre.reg[i].output_file \in DOMAIN target
         /\ target[last.pre.reg[i].output_file]
              = last.pre.target[last.pre.reg[i].output_file]
         /\ file_registry[i].output_file # last.pre.reg[i].output_file
         /\ file_registry[i].output_file \in DOMAIN target

C25_ForceSemantics ==
  \A i \in Ids :
    (/\ last.op \in {"sync_note", "sync_all_notes"}
     /\ ~last.crashed /\ ~last.raised /\ i \in last.ids)
      => /\ (~last.force /\ i \in last.wrote)
              => is_content_changed(last.pre.reg, i, Strip(sources[i]))
         /\ (/\ sources[i] # Missing /\ Strip(sources[i]) # ""
             /\ format_content(Strip(sources[i]), i).bytes
                  <= max_file_size_mb * 1024 * 1024
             /\ ~(last.fault.on = "write" /\ last.fault.at = i)
             /\ \/ last.force
                \/ is_content_changed(last.pre.reg, i, Strip(sources[i])))
              => /\ i \in last.wrote
                 /\ last.results[i]
                 /\ i \in DOMAIN file_registry
                 /\ file_registry[i]
                      = Upsert(EmptyMap, i,
                               generate_filename(Strip(sources[i]), i, now),
                               Strip(sources[i]), now,
                               format_content(Strip(sources[i]), i).chars)[i]

\* C25 witness: a forced pass has written a note whose record held the
\* fingerprint of its content, and has replaced the record.
C25_Witness ==
  \E i \in Ids :
    /\ last.op = "sync_all_notes" /\ last.force /\ ~last.crashed
    /\ i \in last.wrote
    /\ i \in DOMAIN last.pre.reg
    /\ ~is_content_changed(last.pre.reg, i, Strip(sources[i]))
    /\ file_registry[i] # last.pre.reg[i]

\* s ends with suffix; s has sub as one of its segments.
EndsWith(s, suffix) ==
  /\ Len(s) >= Len(suffix)
  /\ SubSeq(s, Len(s) - Len(suffix) + 1, Len(s)) = suffix

Contains(s, sub) ==
  \E k \in 0..(Len(s) - Len(sub)) : SubSeq(s, k + 1, k + Len(sub)) = sub

AsciiAlnum == AsciiLetters \cup {AsciiDigits[k] : k \in DOMAIN AsciiDigits}

\* C26: for a content whose cleaned first line is longer than
\* title_max_length, extract_title returns a title that ends with "..."
\* and has at most title_max_length + 3 characters; a cleaned first line of
\* exactly title_max_length characters is returned at full length, without
\* the marker.
C26_TitleTruncation ==
  (call.op = "extract_title" /\ strip(text) # <<>>)
    => /\ Len(cleaned_title(text)) > title_max_length
            => /\ EndsWith(call.result, Ellipsis)
               /\ Len(call.result) <= title_max_length + 3
       /\ Len(cleaned_title(text)) = title_max_length
            => /\ Len(call.result) = title_max_length
               /\ ~EndsWith(call.result, Ellipsis)

C28_AsciiOnlyTitle ==
  call.op = "extract_title"
    => \A k \in DOMAIN call.result :
         call.result[k] \in AsciiAlnum \cup {" ", "-", "_"}

\* C29: under the default configuration generate_filename returns, for
\* every content, a name made of ASCII letters, ASCII digits, hyphens,
\* underscores and periods only, and the name for an empty or whitespace
\* only content carries the title Untitled_Note.
C29_SafeFilename ==
  (call.op = "generate_filename" /\ config = SyncConfig)
    => /\ ~call.raised
       /\ \A k \in DOMAIN call.result :
            call.result[k] \in AsciiAlnum \cup {"-", "_", "."}
       /\ strip(text) = <<>> => Contains(call.result, Untitled_Note)

\* C30: under every configuration and for every content generate_filename
\* returns a name of at most 200 characters that holds the whole timestamp
\* and, with include_hash, the whole fingerprint of eight characters; it
\* does not raise.
C30_FilenameLength ==
  call.op = "generate_filename"
    => /\ ~call.raised
       /\ Len(call.result) <= 200
       /\ Contains(call.result, strftime(config.timestamp_format, call.t))
       /\ include_hash => Contains(call.result, content_hash_chars(text))

\* C31: when sync_note has written a note, the file_size of the note's
\* record is the length in bytes (UTF-8) of the formatted content that was
\* written.
C31_SizeInBytes ==
  \A i \in Ids :
    (/\ last.op = "sync_note" /\ ~last.crashed
     /\ i \in last.wrote /\ i \in DOMAIN file_registry)
      => file_registry[i].file_size
           = format_content(Strip(sources[i]), i).bytes

\* C32: a debounced sync of one identity adds at most one file to the
\* target directory and deletes none, and it leaves every record of the
\* ledger there, changing at most the record of its own identity (the
\* process does not die in it).
C32_DebouncedSyncFrame ==
  [][/\ (loop.pc = "fire" /\ loop'.pc = "record")
          => /\ DOMAIN target \subseteq DOMAIN target'
             /\ Cardinality(DOMAIN target' \ DOMAIN target) <= 1
             /\ file_registry' = file_registry
     /\ (loop.pc = "record" /\ loop'.pc # "record" /\ alive')
          => /\ DOMAIN target' = DOMAIN target
             /\ \A s \in DOMAIN file_registry :
                  /\ s \in DOMAIN file_registry'
                  /\ (s # loop.file_path
                        => file_registry'[s] = file_registry[s])]_vars

\* C32 witness: a debounced sync has written and recorded its note while
\* the ledger held the record of another identity, which is still there.
C32_Witness ==
  \E i, j \in Ids :
    /\ i # j
    /\ last.op = "debounced" /\ last.ids = {i} /\ i \in last.wrote
    /\ j \in DOMAIN last.pre.reg
    /\ j \in DOMAIN file_registry
    /\ Cardinality(DOMAIN target) = 2

\* C33: a notification that is a creation or a modification of a file
\* (not a directory) whose name begins with content- starts the scheduling
\* of that file, and every other notification leaves the pending set and
\* the watcher as they were; an entry of the pending set is created or
\* reset only for the file of such a notification.
C33_OnlyContentChangesSchedule ==
  [][/\ (event' # event)
          => IF /\ event'.event_type \in {"created", "modified"}
                /\ ~event'.is_directory
                /\ is_content_file(event'.src_path)
               THEN /\ watcher'.pc = "stamped"
                    /\ watcher'.file_path = event'.src_path
                    /\ watcher'.schedule_time = now + debounce_seconds
                    /\ pending_syncs' = pending_syncs
               ELSE watcher' = watcher /\ pending_syncs' = pending_syncs
     /\ \A k \in DOMAIN pending_syncs' :
          (k \notin DOMAIN pending_syncs
             \/ pending_syncs'[k] # pending_syncs[k])
            => /\ event.event_type \in {"created", "modified"}
               /\ ~event.is_directory
               /\ event.src_path = k
               /\ is_content_file(k)]_vars

\* C33 witness: content-A is pending, and the notification delivered last,
\* a deletion or a move of content-B, has left content-B without an entry.
C33_Witness ==
  /\ event.event_type \in {"deleted", "moved"}
  /\ event.src_path = "/x/content-B"
  /\ watcher.pc = "idle"
  /\ DOMAIN pending_syncs = {"/x/content-A"}

\* C34: while the loop of start_monitoring keeps running, an identity that
\* has an entry in the pending set gets a sync attempt, for which its entry
\* has been removed from the pending set.
C34_DebounceLiveness ==
  \A i \in Ids :
    (i \in DOMAIN pending_syncs /\ running)
      ~> \/ /\ loop.pc = "record" /\ loop.file_path = i
            /\ i \notin DOMAIN pending_syncs
         \/ ~running

\* C34 witness: the debounced sync of an identity has run, the identity has
\* no entry left and the loop is running.
C34_Witness ==
  \E i \in Ids :
    /\ last.op = "debounced" /\ last.ids = {i}
    /\ heard[i].fired = 1 /\ heard[i].notes >= 1
    /\ i \notin DOMAIN pending_syncs
    /\ running /\ loop.pc = "wait"

\* C35: two records of the ledger for different identities name
\* different output files.
C35_DistinctOutputFiles ==
  alive => \A a, b \in DOMAIN file_registry :
             a # b => file_registry[a].output_file
                        # file_registry[b].output_file

\* C36: when sync_all_notes has returned, the output file recorded for an
\* identity that the pass discovered and that is still in the ledger is in
\* the target directory, if it was there when the cleanup of the pass
\* began (it was there before the pass, or the pass wrote it).
C36_ReclaimKeepsLiveFiles ==
  \A i \in Ids :
    (/\ last.op = "sync_all_notes" /\ ~last.crashed /\ ~last.raised
     /\ i \in last.ids /\ i \in DOMAIN file_registry
     /\ \/ file_registry[i].output_file \in DOMAIN last.pre.target
        \/ i \in last.wrote)
      => file_registry[i].output_file \in DOMAIN target

\* C37: when a pass has removed the record of an identity, the target
\* directory holds no file that the engine wrote for that identity.
C37_CompleteReclamation ==
  \A a \in Ids :
    (/\ last.op = "sync_all_notes" /\ ~last.crashed /\ ~last.raised
     /\ a \in DOMAIN last.pre.reg /\ a \notin DOMAIN file_registry)
      => \A n \in DOMAIN target :
           ~(target[n].by = "engine" /\ target[n].source = a)

\* C38: a pass over a ledger that the start loaded, which discovers a note
\* and meets no fault of the environment, returns its outcome mapping, has
\* removed the record of every identity it did not discover, and has
\* persisted the ledger it leaves.
C38_ReclaimCompletes ==
  (/\ last.op = "sync_all_notes" /\ ~last.crashed
   /\ last.fault = NoFault /\ last.ids # {})
    => /\ ~last.raised
       /\ alive
       /\ DOMAIN last.results = last.ids
       /\ \A o \in DOMAIN last.pre.reg \ last.ids :
            /\ o \notin DOMAIN file_registry
            /\ metadata_file = Document(file_registry)

\* C39: a tick that scans the pending set while the watcher thread
\* delivers a notification leaves the loop running, and an entry leaves
\* the pending set only in the step that starts its sync.
C39_ScanRace ==
  [][/\ (loop.pc = "scan" /\ loop'.pc # "scan" /\ running) => running'
     /\ \A k \in DOMAIN pending_syncs :
          (k \notin DOMAIN pending_syncs' /\ alive')
            => loop'.pc = "record" /\ loop'.file_path = k]_vars

\* C40: in the monitor command, once the initial sync has returned, a note
\* whose content is not the content recorded for it gets a sync attempt,
\* unless the loop of start_monitoring has ended.
C40_NoChangeMissedAtStartup ==
  \A i \in Ids :
    (/\ main.pc = "monitor" /\ alive
     /\ is_content_changed(file_registry, i, Strip(sources[i])))
      ~> \/ loop.pc = "record" /\ loop.file_path = i
         \/ loop.pc = "done"
         \/ ~alive

====
